---- MODULE Spec2Model ----
(***************************************************************************)
(* Model of the application-tracking state machine of the Job Application  *)
(* Autopilot: the SQLite tables of src/storage/database.py (resumes, jobs, *)
(* applications, action_log, with the partial unique index on              *)
(* applications), the ApplyAgent confirmation workflow                     *)
(* (src/agents/apply_agent.py), TrackerAgent.update_status                 *)
(* (src/agents/tracker_agent.py) and the two tool entry points apply_job   *)
(* and track_applications (src/tools).                                     *)
(*                                                                         *)
(* Python's None is modelled by NoScore for an ATS score, by NoId for an   *)
(* id or a timestamp and by the empty string for a text; a text is only    *)
(* ever tested for truthiness by the code, so None and "" coincide.        *)
(*                                                                         *)
(* A row of applications carries the columns some operation reads back     *)
(* (resume_id, job_id, status, applied_at); the columns that are only      *)
(* written (ats_score, ats_report, tailored_text, cover_letter, notes,     *)
(* platform, created_at, updated_at) are accepted by update_application    *)
(* and not tracked.                                                        *)
(***************************************************************************)
EXTENDS Integers, Sequences, FiniteSets, TLC

\* ---------------------------------------------------------------- bounds
MaxApps == 2
MaxLog == 4
\* How many tailor tokens are minted, and how many steps the clock makes.
MaxTokens == 2
MaxTicks == 3
\* How many non-standard section headers a resume has, and how many jobs.
MaxHeaders == 4
MaxJobs == 4
\* How many characters a text handed to DiffViewer.diff has.
MaxText == 3
\* Scraper(max_retries=...): the largest retry count; 3 is the default.
MaxRetries == 3

\* ------------------------------------------------------ program constants
MIN_ATS_SCORE == 60

NoScore == -1
NoId == 0

_TOKEN_TTL_SECONDS == 1800

\* tailor_token=None: the caller presents no token.
NoToken == 0
\* Python's None where a text is expected as such (and "" is a text).
None == "None"

_APPLICATION_UPDATABLE_COLUMNS ==
    {"status", "ats_score", "ats_report", "tailored_text",
     "cover_letter", "applied_at", "platform", "notes"}

valid_statuses ==
    {"draft", "ready", "submitted", "rejected", "interview", "offer", "cancelled"}

\* ----------------------------------------------------------------- inputs
\* The rows of tables resumes and jobs (their ids): no operation modelled here
\* writes them.  The inputs also name an id that has no row.
ResumeRows == {1}
JobRows == {1}
\* The (resume_id, job_db_id) pairs a caller passes: the pair of stored rows,
\* one with an unknown resume, one with an unknown job.
PairInputs == {<<1, 1>>, <<2, 1>>, <<1, 2>>}
\* What datetime.now() may return.
Times == {1, 2}
AtsScores == {NoScore, MIN_ATS_SCORE - 1, MIN_ATS_SCORE}
Texts == {"", "t"}
\* The notes a caller of update_status passes.
Notes == {"t"}
\* The (tailored_text, cover_letter) pairs a caller passes.
Contents == {<<"t", "">>}
StatusInputs == valid_statuses \cup {"archived"}

VARIABLES
    applications,   \* rows of table applications, indexed by id
    action_log,     \* rows of table action_log, in insertion order
    result,         \* what the last call returned (or the exception it raised)
    _TAILOR_TOKENS, \* the token table of tools/tailor_resume.py: token -> entry
    clock,          \* what time.time() returns, in seconds
    issued,         \* history: per token minted, its text, its minting time and
                    \* the texts validations of it returned
    tool_result,    \* what the last tailor_resume or export_resume call returned
    resume_data,    \* ATS input: the parsed resume (ResumeParserAgent.parse)
    jd_extract,     \* ATS input: the JD extract (JDExtractor.extract)
    resume_extract, \* ATS input: the resume extract (ResumeExtractor.extract)
    ats_call,       \* ATS input: gap_threshold_months, and what datetime.now() returns
    layer1,         \* what FormatterCheck.check returned
    layer2,         \* what KeywordScorer.score returned
    layer3,         \* what IntegrityCheck.check returned
    report,         \* what ATSReport.format returned
    provider,       \* LLMService.provider of the agent's LLM: "none" is MCP mode
    check_result,   \* what ATSCheckerAgent.check returned
    extracts_call,  \* the last check_with_extracts call: its extracts, its report
    original_text,  \* DiffViewer.diff input: the original text
    modified_text,  \* DiffViewer.diff input: the modified text
    diff_result,    \* what DiffViewer.diff returned
    original_sections, \* DiffViewer.diff_sections input: section -> list of strings
    modified_sections, \* DiffViewer.diff_sections input: section -> list of strings
    sections_result, \* what DiffViewer.diff_sections returned
    _max_retries,   \* Scraper._max_retries
    fetch_url,      \* Scraper.fetch: its argument url
    attempt,        \* Scraper.fetch: the loop variable attempt
    fetch_pc,       \* Scraper.fetch: where the call stands
    outcomes,       \* history: how each client.get of the call ended
    sleeps,         \* history: the argument of each asyncio.sleep of the call
    fetch_result,   \* what Scraper.fetch returned
    cookie_files,   \* platforms with a file <platform>_cookies.json in sessions_dir
    agent_session,  \* the SessionManager of the PlatformAgent of a search_jobs call
    search_result,  \* what search_jobs returned, per platform
    save_result     \* what tool_save_session returned

apply_vars == <<applications, action_log, result>>

tailor_vars == <<_TAILOR_TOKENS, clock, issued, tool_result>>

ats_inputs == <<resume_data, jd_extract, resume_extract, ats_call>>

agent_vars == <<provider, check_result, extracts_call>>

ats_vars == <<ats_inputs, layer1, layer2, layer3, report, agent_vars>>

diff_vars == <<original_text, modified_text, diff_result,
               original_sections, modified_sections, sections_result>>

scraper_vars == <<_max_retries, fetch_url, attempt, fetch_pc, outcomes, sleeps,
                  fetch_result>>

session_vars == <<cookie_files, agent_session, search_result, save_result>>

web_vars == <<scraper_vars, session_vars>>

\* What the application-tracking operations leave alone.
outside_apply == <<tailor_vars, ats_vars, diff_vars, web_vars>>

\* What the tailor-token operations leave alone.
outside_tailor == <<apply_vars, ats_vars, diff_vars, web_vars>>

\* What the ATS operations leave alone.
outside_ats == <<apply_vars, tailor_vars, diff_vars, web_vars>>

\* What DiffViewer leaves alone.
outside_diff == <<apply_vars, tailor_vars, ats_vars, web_vars>>

\* What Scraper leaves alone.
outside_scraper == <<apply_vars, tailor_vars, ats_vars, diff_vars, session_vars>>

\* What the session tools leave alone.
outside_session == <<apply_vars, tailor_vars, ats_vars, diff_vars, scraper_vars>>

vars == <<apply_vars, tailor_vars, ats_vars, diff_vars, web_vars>>

db == <<applications, action_log>>

\* ----------------------------------------------------------------- results
\* The dict a call returns: error is "" when the dict has no "error" key, and
\* names the error (or the exception raised) otherwise; id is the key of a row
\* returned as such, application_id the key the ApplyAgent results carry.
Res(error) ==
    [error |-> error, application_id |-> NoId, id |-> NoId, status |-> "",
     requires_confirmation |-> FALSE, applied_at |-> NoId,
     min_required |-> NoScore, suggestion |-> FALSE]

\* ------------------------------------------------------------ the database
\* Faulty variant: the unique index is missing from the schema.
idx_app_resume_job_dropped(apps) == TRUE

\* idx_app_resume_job: UNIQUE (resume_id, job_id) WHERE status != 'cancelled'
idx_app_resume_job(apps) ==
    \A i, k \in 1..Len(apps) :
        (/\ i # k
         /\ apps[i].status # "cancelled"
         /\ apps[k].status # "cancelled"
         /\ apps[i].resume_id = apps[k].resume_id)
        => apps[i].job_id # apps[k].job_id

get_resume(resume_id) == resume_id \in ResumeRows

get_job(job_db_id) == job_db_id \in JobRows

get_application(app_id) == app_id \in 1..Len(applications)

\* Faulty variant: the lookup keeps only drafts instead of dropping cancelled rows.
find_application_drafts_only(resume_id, job_id) ==
    LET hits == {i \in 1..Len(applications) :
                    /\ applications[i].resume_id = resume_id
                    /\ applications[i].job_id = job_id
                    /\ applications[i].status = "draft"}
    IN IF hits = {} THEN NoId
       ELSE CHOOSE i \in hits : \A k \in hits : k <= i

\* The id of the pair's non-cancelled application (the newest one), or NoId.
find_application(resume_id, job_id) ==
    LET hits == {i \in 1..Len(applications) :
                    /\ applications[i].resume_id = resume_id
                    /\ applications[i].job_id = job_id
                    /\ applications[i].status # "cancelled"}
    IN IF hits = {} THEN NoId
       ELSE CHOOSE i \in hits : \A k \in hits : k <= i

\* Faulty variant: the column default is another state.
DefaultStatusReady == "ready"

\* The DEFAULT of column status.
DefaultStatus == "draft"

NewApplication(resume_id, job_id, ats_score) ==
    [resume_id |-> resume_id, job_id |-> job_id, status |-> DefaultStatus,
     applied_at |-> NoId]

\* The table after INSERT INTO applications.
create_application(apps, resume_id, job_id, ats_score) ==
    Append(apps, NewApplication(resume_id, job_id, ats_score))

\* Faulty variant: no key is rejected.
invalid_keys_unchecked(kwargs) == {}

\* The keys of kwargs that update_application rejects with ValueError.
invalid_keys(kwargs) == (DOMAIN kwargs) \ _APPLICATION_UPDATABLE_COLUMNS

\* The table after UPDATE applications SET kwargs WHERE id = app_id.
update_application(apps, app_id, kwargs) ==
    [i \in 1..Len(apps) |->
        IF i = app_id
        THEN [f \in DOMAIN apps[i] |->
                 IF f \in DOMAIN kwargs THEN kwargs[f] ELSE apps[i][f]]
        ELSE apps[i]]

LogEntry(action, application_id, confirmed, confirmed_at) ==
    [action |-> action, application_id |-> application_id,
     confirmed |-> confirmed, confirmed_at |-> confirmed_at]

\* The table after INSERT INTO action_log.
log_action(log, action, application_id, confirmed, confirmed_at) ==
    Append(log, LogEntry(action, application_id, confirmed, confirmed_at))

\* The ids of existing applications, and the first id that has no row.
AppIds(apps) == 1..(Len(apps) + 1)

\* The tables are empty after Database.initialize().
ApplyInit ==
    /\ applications = <<>>
    /\ action_log = <<>>
    /\ result = Res("")

\* -------------------------------------------------------------- operations
\* Faulty variant: the gate ignores the force override.
AtsGateIgnoresForce(ats_score, force) ==
    ats_score # NoScore /\ ats_score < MIN_ATS_SCORE

\* Guard rail #1 of prepare_application: the ATS minimum score gate.
AtsGateRejects(ats_score, force) ==
    ats_score # NoScore /\ ats_score < MIN_ATS_SCORE /\ ~force

\* Guard rail #2 of prepare_application: existing is find_application's row.
IsDuplicate(existing) ==
    existing # NoId /\ applications[existing].status \notin {"cancelled"}

\* The updates dict prepare_application builds from the truthy texts.
PrepareUpdates(tailored_text, cover_letter) ==
    [f \in {k \in {"tailored_text", "cover_letter"} :
                \/ k = "tailored_text" /\ tailored_text # ""
                \/ k = "cover_letter" /\ cover_letter # ""} |->
        IF f = "tailored_text" THEN tailored_text ELSE cover_letter]

prepare_application(resume_id, job_db_id, tailored_text, cover_letter, ats_score, force) ==
    LET existing == find_application(resume_id, job_db_id)
        app_id == Len(applications) + 1
        created == create_application(applications, resume_id, job_db_id, ats_score)
        updates == PrepareUpdates(tailored_text, cover_letter)
    IN
    /\ IF AtsGateRejects(ats_score, force)
       THEN /\ result' = [Res("ats_below_min") EXCEPT
                            !.min_required = MIN_ATS_SCORE, !.suggestion = TRUE]
            /\ UNCHANGED <<applications, action_log>>
       ELSE IF ~get_resume(resume_id)
       THEN /\ result' = Res("resume_not_found")
            /\ UNCHANGED <<applications, action_log>>
       ELSE IF ~get_job(job_db_id)
       THEN /\ result' = Res("job_not_found")
            /\ UNCHANGED <<applications, action_log>>
       ELSE IF IsDuplicate(existing)
       THEN /\ result' = [Res("duplicate") EXCEPT
                            !.application_id = existing,
                            !.status = applications[existing].status,
                            !.suggestion = TRUE]
            /\ UNCHANGED <<applications, action_log>>
       ELSE IF ~idx_app_resume_job(created)
       THEN \* the INSERT violates the unique index: sqlite3.IntegrityError
            /\ result' = Res("IntegrityError")
            /\ UNCHANGED <<applications, action_log>>
       ELSE /\ Len(applications) < MaxApps
            /\ Len(action_log) < MaxLog
            /\ applications' =
                 IF invalid_keys(updates) = {}
                 THEN update_application(created, app_id, updates)
                 ELSE created
            /\ IF invalid_keys(updates) # {}
               THEN /\ result' = Res("ValueError")
                    /\ UNCHANGED action_log
               ELSE /\ action_log' = log_action(action_log, "prepare_application",
                                                app_id, FALSE, NoId)
                    /\ result' = [Res("") EXCEPT
                                    !.application_id = app_id,
                                    !.status = "draft",
                                    !.requires_confirmation = TRUE]

\* Faulty variant: confirm_apply refuses only cancelled applications.
ConfirmAllowedUnlessCancelled(status) == status # "cancelled"

\* The states confirm_apply accepts.
ConfirmAllowed(status) == status \in {"draft", "ready"}

\* Faulty variant: the log entry takes a second reading of the clock.
ConfirmedAtReread(now) == now + 1

\* The timestamp confirm_apply logs as confirmed_at: the one it stored.
ConfirmedAt(now) == now

confirm_apply(app_id, now) ==
    LET kwargs == [status |-> "submitted", applied_at |-> now]
        updated == update_application(applications, app_id, kwargs)
    IN
    /\ IF ~get_application(app_id)
       THEN /\ result' = Res("app_not_found")
            /\ UNCHANGED <<applications, action_log>>
       ELSE IF ~ConfirmAllowed(applications[app_id].status)
       THEN /\ result' = [Res("wrong_state") EXCEPT
                            !.application_id = app_id,
                            !.status = applications[app_id].status,
                            !.suggestion = TRUE]
            /\ UNCHANGED <<applications, action_log>>
       ELSE IF invalid_keys(kwargs) # {}
       THEN /\ result' = Res("ValueError")
            /\ UNCHANGED <<applications, action_log>>
       ELSE IF ~idx_app_resume_job(updated)
       THEN /\ result' = Res("IntegrityError")
            /\ UNCHANGED <<applications, action_log>>
       ELSE /\ Len(action_log) < MaxLog
            /\ applications' = updated
            /\ action_log' = log_action(action_log, "confirm_apply", app_id,
                                        TRUE, ConfirmedAt(now))
            /\ result' = [Res("") EXCEPT
                            !.application_id = app_id,
                            !.status = "submitted",
                            !.applied_at = now]

\* The notes cancel_application stores.
CancelNotes(reason) == IF reason # "" THEN "Cancelled: t" ELSE "Cancelled by user"

\* Faulty variant: the status is written in the other spelling.
CancelStatusMisspelt == "canceled"

\* The status cancel_application stores.
CancelStatus == "cancelled"

cancel_application(app_id, reason) ==
    LET kwargs == [status |-> CancelStatus, notes |-> CancelNotes(reason)]
        updated == update_application(applications, app_id, kwargs)
    IN
    /\ IF ~get_application(app_id)
       THEN /\ result' = Res("app_not_found")
            /\ UNCHANGED <<applications, action_log>>
       ELSE IF invalid_keys(kwargs) # {}
       THEN /\ result' = Res("ValueError")
            /\ UNCHANGED <<applications, action_log>>
       ELSE IF ~idx_app_resume_job(updated)
       THEN /\ result' = Res("IntegrityError")
            /\ UNCHANGED <<applications, action_log>>
       ELSE /\ Len(action_log) < MaxLog
            /\ applications' = updated
            /\ action_log' = log_action(action_log, "cancel_application", app_id,
                                        FALSE, NoId)
            /\ result' = [Res("") EXCEPT
                            !.application_id = app_id,
                            !.status = "cancelled"]

\* The kwargs update_status passes to update_application.
StatusKwargs(new_status, notes) ==
    IF notes # ""
    THEN [status |-> new_status, notes |-> notes]
    ELSE [status |-> new_status]

update_status(app_id, new_status, notes) ==
    LET kwargs == StatusKwargs(new_status, notes)
        updated == update_application(applications, app_id, kwargs)
    IN
    /\ IF new_status \notin valid_statuses
       THEN /\ result' = Res("invalid_status")
            /\ UNCHANGED <<applications, action_log>>
       ELSE IF invalid_keys(kwargs) # {}
       THEN /\ result' = Res("ValueError")
            /\ UNCHANGED <<applications, action_log>>
       ELSE IF ~idx_app_resume_job(updated)
       THEN \* the UPDATE violates the unique index: sqlite3.IntegrityError
            /\ result' = Res("IntegrityError")
            /\ UNCHANGED <<applications, action_log>>
       ELSE /\ Len(action_log) < MaxLog
            /\ applications' = updated
            /\ action_log' = log_action(action_log, "status_update", app_id,
                                        FALSE, NoId)
            /\ result' = IF get_application(app_id)
                         THEN [Res("") EXCEPT
                                 !.id = app_id,
                                 !.status = updated[app_id].status,
                                 !.applied_at = updated[app_id].applied_at]
                         ELSE Res("app_not_found")

\* The keyword arguments a caller of Database.update_application passes:
\* whitelisted columns only, a column outside the whitelist alone, and both
\* together; resume_id and id are columns of the table, is_admin is none.
KwargsInputs ==
    {[status |-> "ready"],
     [notes |-> "t", status |-> "rejected"],
     [resume_id |-> 2],
     [status |-> "ready", resume_id |-> 2],
     [status |-> "ready", is_admin |-> "t"]}

\* Database.update_application called as such: ValueError before any SQL is
\* built when a key is outside the whitelist, else the UPDATE (which may
\* violate the unique index); the method returns None.
Database_update_application(app_id, kwargs) ==
    LET updated == update_application(applications, app_id, kwargs)
    IN  /\ IF invalid_keys(kwargs) # {}
           THEN /\ result' = Res("ValueError")
                /\ applications' = applications
           ELSE IF ~idx_app_resume_job(updated)
           THEN /\ result' = Res("IntegrityError")
                /\ applications' = applications
           ELSE /\ result' = Res("")
                /\ applications' = updated
        /\ UNCHANGED action_log

\* ------------------------------------------------------------------ actions
UpdateApplication ==
    /\ \E app_id \in AppIds(applications), kwargs \in KwargsInputs :
           Database_update_application(app_id, kwargs)
    /\ UNCHANGED outside_apply

PrepareApplication ==
    /\ \E pair \in PairInputs, content \in Contents,
          ats_score \in AtsScores, force \in BOOLEAN :
           prepare_application(pair[1], pair[2], content[1], content[2],
                               ats_score, force)
    /\ UNCHANGED outside_apply

ConfirmApply ==
    /\ \E app_id \in AppIds(applications), now \in Times : confirm_apply(app_id, now)
    /\ UNCHANGED outside_apply

CancelApplication ==
    /\ \E app_id \in AppIds(applications), reason \in Texts :
           cancel_application(app_id, reason)
    /\ UNCHANGED outside_apply

UpdateStatus ==
    /\ \E app_id \in AppIds(applications), new_status \in StatusInputs, notes \in Notes :
           update_status(app_id, new_status, notes)
    /\ UNCHANGED outside_apply

\* The tool apply_job with confirm=True: it needs an app_id.
ApplyJobConfirm ==
    /\ \E app_id \in {NoId} \cup AppIds(applications) :
           IF app_id = NoId
           THEN /\ result' = [Res("missing_app_id") EXCEPT !.suggestion = TRUE]
                /\ UNCHANGED db
           ELSE \E now \in Times : confirm_apply(app_id, now)
    /\ UNCHANGED outside_apply

\* The tool apply_job with confirm=False: it never passes force.
ApplyJobPrepare ==
    /\ \E pair \in PairInputs, content \in Contents,
          ats_score \in AtsScores :
           prepare_application(pair[1], pair[2], content[1], content[2],
                               ats_score, FALSE)
    /\ UNCHANGED outside_apply

\* The tool track_applications, action "update".
TrackApplications ==
    /\ \E app_id \in {NoId} \cup AppIds(applications),
          new_status \in {""} \cup StatusInputs, notes \in Notes :
           IF app_id = NoId \/ new_status = ""
           THEN /\ result' = Res("missing_arguments")
                /\ UNCHANGED db
           ELSE update_status(app_id, new_status, notes)
    /\ UNCHANGED outside_apply


\* ============================================================ tailor tokens
\* tools/tailor_resume.py and tools/export_resume.py, with DocExporter.export
\* and the server's tool_export_resume.  A token is the number of its minting
\* (secrets.token_urlsafe(16) never repeats); MaxTokens + 1 is a token that was
\* never minted.  The clock moves in steps of half the time to live, so that a
\* call can fall before, exactly at and after an expiry.

Quantum == _TOKEN_TTL_SECONDS \div 2
MaxClock == MaxTicks * Quantum

\* What the LLM may answer to the tailoring prompt.
TailoredTexts == {"T1", "T2"}
\* The resume_text a caller of export_resume passes: the original resume, or a
\* text tailor_resume returned.
ResumeTexts == {"orig", "T1"}
\* The (contact, sections) a caller passes: none, or both.
Structures == {<<"", "">>, <<"c", "s">>}
TokenInputs == 1..(MaxTokens + 1)
\* How far the clock moves between the two readings of time.time() in one call.
Later(now) == {d \in {0, Quantum} : now + d <= MaxClock}

\* An absent document (the call returned an error before exporting).
NoDocument == [built_from |-> "", body |-> ""]

TailorInit ==
    /\ _TAILOR_TOKENS = <<>>
    /\ clock = 0
    /\ issued = <<>>
    /\ tool_result = [op |-> "", error |-> "", tailor_token |-> NoToken,
                      text |-> None, document |-> NoDocument]

\* Faulty variant: the comparison is reversed and the live entries are deleted.
_cleanup_tokens_reversed(tokens, now) ==
    [k \in {t \in DOMAIN tokens : tokens[t].expires < now} |-> tokens[k]]

\* for k in expired: del _TAILOR_TOKENS[k], expired being the entries with
\* v["expires"] < now.
_cleanup_tokens(tokens, now) ==
    [k \in {t \in DOMAIN tokens : ~(tokens[t].expires < now)} |-> tokens[k]]

\* Faulty variant: the entry is read and left in the table.
pop_kept(tokens, token) ==
    tokens

\* _TAILOR_TOKENS.pop(token, None): the table without the token.
pop(tokens, token) ==
    [k \in DOMAIN tokens \ {token} |-> tokens[k]]

\* Faulty variant: the time to live is added in minutes.
ExpiresInMinutes(now) == now + _TOKEN_TTL_SECONDS \div 60

\* The expiry an entry gets when minted at time now.
Expires(now) == now + _TOKEN_TTL_SECONDS

\* Faulty variant: an entry is still accepted at the second it expires.
UnexpiredAtExpiry(entry, now) == entry.expires >= now

\* if entry and entry["expires"] > time.time()
Unexpired(entry, now) == entry.expires > now

\* validate_tailor_token(token): the table it leaves and the text it returns.
\* now is the time _cleanup_tokens reads, checked_at the time the test reads.
validate_tailor_token(tokens, token, now, checked_at) ==
    LET cleaned == _cleanup_tokens(tokens, now)
        found == token \in DOMAIN cleaned
    IN  [tokens |-> pop(cleaned, token),
         text |-> IF found /\ Unexpired(cleaned[token], checked_at)
                  THEN cleaned[token].text
                  ELSE None]

\* DocExporter.export: the document is built from the sections when sections
\* and contact are both given, from the text otherwise.
export(resume_text, contact, sections) ==
    IF sections # "" /\ contact # ""
    THEN [built_from |-> "sections", body |-> sections]
    ELSE [built_from |-> "text", body |-> resume_text]

\* tailor_resume: in MCP mode TailorAgent.tailor returns the prompt and no
\* "tailored_text"; with a local LLM it returns the response as tailored text
\* and a token is minted for it.
tailor_resume(mcp_mode, response, later) ==
    IF mcp_mode
    THEN /\ tool_result' = [op |-> "tailor_resume", error |-> "",
                            tailor_token |-> NoToken, text |-> None,
                            document |-> NoDocument]
         /\ UNCHANGED <<_TAILOR_TOKENS, clock, issued>>
    ELSE IF response = None
    THEN \* the provider's call raised: the exception leaves tailor_resume
         /\ tool_result' = [op |-> "tailor_resume", error |-> "LLMError",
                            tailor_token |-> NoToken, text |-> None,
                            document |-> NoDocument]
         /\ UNCHANGED <<_TAILOR_TOKENS, clock, issued>>
    ELSE /\ Len(issued) < MaxTokens
         /\ LET token == Len(issued) + 1
                cleaned == _cleanup_tokens(_TAILOR_TOKENS, clock)
                entry == [text |-> response, expires |-> Expires(clock + later)]
            IN  /\ _TAILOR_TOKENS' =
                       [k \in DOMAIN cleaned \cup {token} |->
                           IF k = token THEN entry ELSE cleaned[k]]
                /\ issued' = Append(issued, [text |-> response,
                                             minted_at |-> clock + later,
                                             returned |-> <<>>])
                /\ tool_result' = [op |-> "tailor_resume", error |-> "",
                                   tailor_token |-> token, text |-> response,
                                   document |-> NoDocument]
         /\ clock' = clock + later

\* export_resume: a presented token is validated and its text replaces
\* resume_text; then DocExporter.export builds the document.
export_resume(resume_text, contact, sections, tailor_token, later) ==
    IF tailor_token # NoToken
    THEN LET v == validate_tailor_token(_TAILOR_TOKENS, tailor_token,
                                        clock, clock + later)
         IN  /\ _TAILOR_TOKENS' = v.tokens
             /\ clock' = clock + later
             /\ issued' = IF v.text # None
                          THEN [issued EXCEPT ![tailor_token].returned =
                                                 Append(@, v.text)]
                          ELSE issued
             /\ tool_result' =
                    IF v.text = None
                    THEN [op |-> "export_resume", error |-> "invalid_token",
                          tailor_token |-> tailor_token, text |-> None,
                          document |-> NoDocument]
                    ELSE [op |-> "export_resume", error |-> "",
                          tailor_token |-> tailor_token, text |-> v.text,
                          document |-> export(v.text, contact, sections)]
    ELSE /\ tool_result' = [op |-> "export_resume", error |-> "",
                            tailor_token |-> NoToken, text |-> resume_text,
                            document |-> export(resume_text, contact, sections)]
         /\ UNCHANGED <<_TAILOR_TOKENS, clock, issued>>

\* Time passes between two calls.
Tick ==
    /\ clock + Quantum <= MaxClock
    /\ clock' = clock + Quantum
    /\ UNCHANGED <<_TAILOR_TOKENS, issued, tool_result>>
    /\ UNCHANGED outside_tailor

TailorResume ==
    /\ \E mcp_mode \in BOOLEAN, response \in TailoredTexts \cup {None},
          later \in Later(clock) :
           tailor_resume(mcp_mode, response, later)
    /\ UNCHANGED outside_tailor

\* A call of the function export_resume, which takes a token.
ExportResume ==
    /\ \E resume_text \in ResumeTexts, structure \in Structures,
          tailor_token \in TokenInputs, later \in Later(clock) :
           export_resume(resume_text, structure[1], structure[2], tailor_token, later)
    /\ UNCHANGED outside_tailor

\* The server's tool_export_resume: it has no tailor_token parameter and calls
\* export_resume with the six other arguments.
tool_export_resume ==
    /\ \E resume_text \in ResumeTexts, structure \in Structures :
           export_resume(resume_text, structure[1], structure[2], NoToken, 0)
    /\ UNCHANGED outside_tailor


\* ================================================================ ATS layers
\* ats/formatter_check.py, ats/keyword_scorer.py, ats/integrity_check.py and
\* ats/report.py.  A text is the sequence of its whitespace-separated words;
\* no word of the vocabulary is part of another, so that "s in text" is
\* membership of the word s.  A regular expression is modelled by the set of
\* words (or pairs of adjacent words) of the vocabulary it matches.  An issue
\* carries its check and severity (the message and suggestion are texts built
\* from them).

\* A layer that has not been computed.
NoResult == [score |-> -1, max_score |-> 0]

Count(seq, Test(_)) == Cardinality({i \in 1..Len(seq) : Test(seq[i])})

Min(a, b) == IF a < b THEN a ELSE b

Max(a, b) == IF a > b THEN a ELSE b

Issue(check, severity) == [check |-> check, severity |-> severity]

Words(text) == {text[i] : i \in 1..Len(text)}

\* str.lower() on the words of the vocabulary.
lower(s) ==
    CASE s = "Py" -> "py"
      [] s = "SQL" -> "sql"
      [] s = "ML" -> "ml"
      [] s = "Q1" -> "q1"
      [] OTHER -> s

\* Two of the thirteen characters (an arrow and a star), as words.
PROBLEMATIC_BULLETS == {"(arrow)", "(star)"}

\* ------------------------------------------------------------ FormatterCheck
FormatterCheck_MAX_SCORE == 20

\* _check_file_type: the issue, or <<>> for None.
_check_file_type(data) ==
    IF data.file_type \notin {"pdf", "docx"}
    THEN <<Issue("file_type", "error")>>
    ELSE <<>>

HeaderIssue(header) ==
    IF header.canonical # "other"
    THEN Issue("section_header", "warning")
    ELSE Issue("section_header", "info")

RECURSIVE HeaderIssues(_)
HeaderIssues(headers) ==
    IF headers = <<>> THEN <<>>
    ELSE (IF ~Head(headers).is_standard THEN <<HeaderIssue(Head(headers))>> ELSE <<>>)
         \o HeaderIssues(Tail(headers))

\* _check_section_headers: one point per non-standard header that has a
\* canonical name, capped at 3.
_check_section_headers(data) ==
    LET issues == HeaderIssues(data.section_headers)
        Warned(i) == i.severity = "warning"
    IN  [issues |-> issues, penalty |-> Min(Count(issues, Warned), 3)]

\* "header" in warning.lower() or "footer" in warning.lower()
MentionsHeaderOrFooter(warning) ==
    warning \in {"Email found in page header", "Phone found in page footer"}

\* _check_contact_placement: one point per such warning, capped at 2.
_check_contact_placement(data) ==
    LET placed == SelectSeq(data.warnings, MentionsHeaderOrFooter)
    IN  [issues |-> [i \in 1..Len(placed) |-> Issue("contact_placement", "warning")],
         penalty |-> Min(Len(placed), 2)]

\* _detect_columns: at least 4 items with a bounding box, and two adjacent
\* distinct x positions more than 200 apart (NoX is an x of None).
NoX == -1

_detect_columns(items) ==
    LET x_positions == {items[i] : i \in 1..Len(items)} \ {NoX}
    IN  /\ Len(items) >= 4
        /\ \E a, b \in x_positions :
              /\ a < b
              /\ \A c \in x_positions : ~(a < c /\ c < b)
              /\ b - a > 200

\* Faulty variant: the layout penalty is added to the score.
_check_layout_added(data) ==
    IF _detect_columns(data.items)
    THEN [issues |-> <<Issue("layout", "warning")>>, penalty |-> -2]
    ELSE [issues |-> <<>>, penalty |-> 0]

\* _check_layout: 2 points for a multi-column layout.
_check_layout(data) ==
    IF _detect_columns(data.items)
    THEN [issues |-> <<Issue("layout", "warning")>>, penalty |-> 2]
    ELSE [issues |-> <<>>, penalty |-> 0]

_check_bullets(data) ==
    IF Words(data.raw_text) \cap PROBLEMATIC_BULLETS # {}
    THEN [issues |-> <<Issue("bullet_style", "info")>>, penalty |-> 1]
    ELSE [issues |-> <<>>, penalty |-> 0]

\* FormatterCheck._build_result
FormatterCheck_build_result(score, issues) ==
    LET Is(sev) == Cardinality({i \in 1..Len(issues) : issues[i].severity = sev})
    IN  [layer |-> 1, score |-> score, max_score |-> FormatterCheck_MAX_SCORE,
         issues |-> issues,
         summary |-> [errors |-> Is("error"), warnings |-> Is("warning"),
                      infos |-> Is("info"), passed |-> issues = <<>>]]

\* FormatterCheck.check
FormatterCheck_check(data) ==
    LET file_check == _check_file_type(data)
        headers == _check_section_headers(data)
        contact == _check_contact_placement(data)
        layout == _check_layout(data)
        bullets == _check_bullets(data)
    IN  IF file_check # <<>>
        THEN FormatterCheck_build_result(
                 Max(FormatterCheck_MAX_SCORE - 20, 0), file_check)
        ELSE FormatterCheck_build_result(
                 Max(FormatterCheck_MAX_SCORE - headers.penalty
                     - contact.penalty - layout.penalty - bullets.penalty, 0),
                 headers.issues \o contact.issues \o layout.issues \o bullets.issues)

\* ------------------------------------------------------------- KeywordScorer
KeywordScorer_MAX_SCORE == 60
EXACT_MATCH_POINTS == 3
INFERRED_MATCH_POINTS == 2
ACRONYM_BONUS == 1
PLACEMENT_TITLE == 5
PLACEMENT_EXPERIENCE == 3
PLACEMENT_SKILLS == 1

\* [s.lower() for s in skills], as the set of its elements.
Lowered(skills) == {lower(skills[i]) : i \in 1..Len(skills)}

\* jd_all: list(set(jd_required + jd_preferred + jd_domains + jd_tools)).  The
\* order of that list is the iteration order of a set of strings; the lists
\* derived from it (matched, inferred_matches, missing) are modelled as sets.
jd_all(jd) ==
    Lowered(jd.required_hard_skills) \cup Lowered(jd.preferred_hard_skills)
    \cup Lowered(jd.domain_keywords) \cup Lowered(jd.tools_and_frameworks)

matched_keywords(jd, resume) ==
    {k \in jd_all(jd) : k \in Lowered(resume.hard_skills)}

\* Faulty variant: a keyword that is also inferred is listed as inferred too.
inferred_matches_overlapping(jd, resume) ==
    {k \in jd_all(jd) : k \in Lowered(resume.inferred_skills)}

inferred_matches(jd, resume) ==
    {k \in jd_all(jd) : /\ k \notin Lowered(resume.hard_skills)
                        /\ k \in Lowered(resume.inferred_skills)}

missing_keywords(jd, resume) ==
    {k \in jd_all(jd) : /\ k \notin Lowered(resume.hard_skills)
                        /\ k \notin Lowered(resume.inferred_skills)}

\* round(x, 1) of the quotient num / den, in tenths: Python rounds a half to
\* the even neighbour.
RoundTenths(num, den) ==
    LET scaled == 10 * num
        q == scaled \div den
        r == scaled % den
    IN  IF 2 * r > den \/ (2 * r = den /\ q % 2 = 1) THEN q + 1 ELSE q

\* match_pct, in tenths of a percent:
\* round((total_matched / total_jd * 100) if total_jd > 0 else 0, 1)
match_pct(total_matched, total_jd) ==
    IF total_jd > 0 THEN RoundTenths(total_matched * 100, total_jd) ELSE 0

\* _check_acronyms: an issue per JD acronym of which the text has a form.
AcronymIssue(acronym, text) ==
    LET has_short == lower(acronym[1]) \in {lower(w) : w \in Words(text)}
        has_long == lower(acronym[2]) \in {lower(w) : w \in Words(text)}
    IN  IF has_short /\ has_long THEN <<Issue("acronym", "pass")>>
        ELSE IF has_short \/ has_long THEN <<Issue("acronym", "warning")>>
        ELSE <<>>

RECURSIVE _check_acronyms(_, _)
_check_acronyms(jd_acronyms, text) ==
    IF jd_acronyms = <<>> THEN <<>>
    ELSE AcronymIssue(Head(jd_acronyms), text) \o _check_acronyms(Tail(jd_acronyms), text)

\* How often a keyword occurs in the text (the keywords are single words).
Occurrences(keyword, text) ==
    Cardinality({i \in 1..Len(text) : lower(text[i]) = lower(keyword)})

\* density > KEYWORD_DENSITY_STUFFING (5%)
Stuffed(count, total_words) == 100 * count > 5 * total_words

\* count >= 2 and density <= KEYWORD_DENSITY_OPTIMAL_MAX (3%)
Rewarded(count, total_words) ==
    ~Stuffed(count, total_words) /\ count >= 2 /\ 100 * count <= 3 * total_words

\* _check_density: a warning per stuffed keyword, a point per rewarded one,
\* capped at 5.
_check_density(jd_keywords, text) ==
    LET present == {k \in jd_keywords : Len(text) > 0 /\ Occurrences(k, text) > 0}
        stuffed == {k \in present : Stuffed(Occurrences(k, text), Len(text))}
        rewarded == {k \in present : Rewarded(Occurrences(k, text), Len(text))}
    IN  [warnings |-> Cardinality(stuffed), bonus |-> Min(Cardinality(rewarded), 5)]

\* What one required keyword earns by its place.
PlacementPoints(keyword, sections) ==
    IF lower(keyword) \in {lower(w) : w \in Words(sections.summary)} THEN PLACEMENT_TITLE
    ELSE IF lower(keyword) \in {lower(w) : w \in Words(sections.experience)} THEN PLACEMENT_EXPERIENCE
    ELSE IF lower(keyword) \in {lower(w) : w \in Words(sections.skills)} THEN PLACEMENT_SKILLS
    ELSE 0

RECURSIVE SumPlacement(_, _)
SumPlacement(keywords, sections) ==
    IF keywords = <<>> THEN 0
    ELSE PlacementPoints(Head(keywords), sections) + SumPlacement(Tail(keywords), sections)

\* _score_placement: over required_keywords[:10].
_score_placement(required_keywords, sections) ==
    SumPlacement(SubSeq(required_keywords, 1, Min(Len(required_keywords), 10)), sections)

\* Absent resume_sections (None, or an empty dict).
NoSections == [summary |-> <<>>, experience |-> <<>>, skills |-> <<>>]

\* The score: exact matches (capped at 30), inferred matches (capped at 10),
\* acronym bonus (capped at 5), density bonus, placement (capped at 10), the
\* sum capped at MAX_SCORE.
KeywordTotal(matched, inferred, acronyms, density, placement) ==
    Min(Min(matched * EXACT_MATCH_POINTS, 30) + Min(inferred * INFERRED_MATCH_POINTS, 10)
        + Min(acronyms * ACRONYM_BONUS, 5) + density + Min(placement, 10),
        KeywordScorer_MAX_SCORE)

\* KeywordScorer.score
KeywordScorer_score(jd, resume, text, sections) ==
    LET matched == matched_keywords(jd, resume)
        inferred == inferred_matches(jd, resume)
        missing == missing_keywords(jd, resume)
        total_jd == Cardinality(jd_all(jd))
        total_matched == Cardinality(matched) + Cardinality(inferred)
        acronym_issues == _check_acronyms(jd.acronyms, text)
        Passed(i) == i.severity = "pass"
        density == _check_density(jd_all(jd), text)
        placement == IF sections # NoSections
                     THEN _score_placement(jd.required_hard_skills, sections)
                     ELSE 0
    IN  [layer |-> 2,
         score |-> KeywordTotal(Cardinality(matched), Cardinality(inferred),
                                Count(acronym_issues, Passed), density.bonus, placement),
         max_score |-> KeywordScorer_MAX_SCORE,
         match_percentage |-> match_pct(total_matched, total_jd),
         matched_keywords |-> matched,
         inferred_matches |-> inferred,
         missing_keywords |-> missing,
         total_jd_keywords |-> total_jd,
         total_matched |-> total_matched,
         issues |-> (IF matched # {} THEN <<Issue("keyword_match", "pass")>> ELSE <<>>)
                    \o (IF inferred # {} THEN <<Issue("inferred_match", "pass")>> ELSE <<>>)
                    \o (IF missing # {} THEN <<Issue("missing_keywords", "warning")>> ELSE <<>>)
                    \o acronym_issues
                    \o [i \in 1..density.warnings |-> Issue("keyword_density", "warning")]]

\* ------------------------------------------------------------ IntegrityCheck
IntegrityCheck_MAX_SCORE == 20

\* What the regular expressions match in the vocabulary.
EMAIL_REGEX == {"a@b.co"}
PHONE_REGEX == {"9876543210"}
DATE_MM_YYYY == {"01/2020"}
DATE_BARE_YEAR == {"2020", "01/2020"}
\* DATE_FUZZY: a season or quarter followed by a year.
FuzzyDates(text) ==
    {i \in 1..(Len(text) - 1) : lower(text[i]) = "q1" /\ text[i + 1] = "2020"}

\* _check_contact: 3 points for no email, 2 for no phone.
_check_contact(data) ==
    LET has_email == Words(data.raw_text) \cap EMAIL_REGEX # {}
        has_phone == Words(data.raw_text) \cap PHONE_REGEX # {}
    IN  [issues |-> <<Issue("contact_email", IF has_email THEN "pass" ELSE "error"),
                      Issue("contact_phone", IF has_phone THEN "pass" ELSE "warning")>>,
         penalty |-> (IF has_email THEN 0 ELSE 3) + (IF has_phone THEN 0 ELSE 2)]

\* _check_dates: 1 point for fuzzy dates.
_check_dates(text) ==
    LET fuzzy == FuzzyDates(text) # {}
        standard == Words(text) \cap DATE_MM_YYYY # {}
        bare == Words(text) \cap DATE_BARE_YEAR # {}
    IN  [issues |-> (IF fuzzy THEN <<Issue("date_format", "warning")>> ELSE <<>>)
                    \o (IF standard THEN <<Issue("date_format", "pass")>>
                        ELSE IF ~fuzzy /\ bare THEN <<Issue("date_format", "info")>>
                        ELSE <<>>),
         penalty |-> IF fuzzy THEN 1 ELSE 0]

\* A date string of a job: "MM/YYYY" (month 1..12), "Month YYYY", "YYYY",
\* "present", or "" for a missing one; a parsed date is its year and month.
NoDate == [year |-> 0, month |-> 0]

DateStr(form, month, year) == [form |-> form, month |-> month, year |-> year]

\* _parse_date_str
_parse_date_str(date_str) ==
    CASE date_str.form \in {"MM/YYYY", "Month YYYY"} ->
             [year |-> date_str.year, month |-> date_str.month]
      [] date_str.form = "YYYY" -> [year |-> date_str.year, month |-> 1]
      [] OTHER -> NoDate

\* The order of datetime values.
Before(d, e) == d.year < e.year \/ (d.year = e.year /\ d.month < e.month)

\* The jobs that have a start date, their end defaulting to datetime.now().
RECURSIVE dated_jobs(_, _)
dated_jobs(job_titles, now) ==
    IF job_titles = <<>> THEN <<>>
    ELSE LET job == Head(job_titles)
             start == _parse_date_str(job.start_date)
             end == _parse_date_str(job.end_date)
         IN  (IF start # NoDate
              THEN <<[start |-> start, end |-> IF end # NoDate THEN end ELSE now]>>
              ELSE <<>>)
             \o dated_jobs(Tail(job_titles), now)

\* list.sort(key=start, reverse=True): most recent first, jobs of equal start
\* keeping their order.
RECURSIVE InsertByStart(_, _)
InsertByStart(sorted, job) ==
    IF sorted = <<>> THEN <<job>>
    ELSE IF Before(Head(sorted).start, job.start)
         THEN <<job>> \o sorted
         ELSE <<Head(sorted)>> \o InsertByStart(Tail(sorted), job)

RECURSIVE SortByStart(_)
SortByStart(jobs) ==
    IF jobs = <<>> THEN <<>>
    ELSE InsertByStart(SortByStart(SubSeq(jobs, 1, Len(jobs) - 1)), jobs[Len(jobs)])

\* Faulty variant: the months of the two dates are ignored.
gap_months_by_year(current_start, previous_end) ==
    (current_start.year - previous_end.year) * 12

gap_months(current_start, previous_end) ==
    (current_start.year - previous_end.year) * 12
    + (current_start.month - previous_end.month)

\* _check_gaps: 2 points per gap longer than the threshold, capped at 4.
_check_gaps(job_titles, threshold_months, now) ==
    IF Len(job_titles) < 2
    THEN [issues |-> <<>>, penalty |-> 0]
    ELSE LET jobs == SortByStart(dated_jobs(job_titles, now))
             gaps == [i \in 1..(Len(jobs) - 1) |->
                         gap_months(jobs[i].start, jobs[i + 1].end)]
             Long(gap) == gap > threshold_months
             flagged == SelectSeq(gaps, Long)
         IN  [issues |-> [i \in 1..Len(flagged) |->
                             [check |-> "employment_gap", severity |-> "warning",
                              gap_months |-> flagged[i]]],
              penalty |-> Min(2 * Len(flagged), 4)]

\* No experience_required_years (None).
NoYears == -1

\* _check_experience: 2 points when more than a year short.
_check_experience(total_years, required_years) ==
    IF required_years = NoYears THEN [issues |-> <<>>, penalty |-> 0]
    ELSE IF total_years >= required_years
         THEN [issues |-> <<Issue("experience_years", "pass")>>, penalty |-> 0]
    ELSE IF required_years - total_years <= 1
         THEN [issues |-> <<Issue("experience_years", "info")>>, penalty |-> 0]
    ELSE [issues |-> <<Issue("experience_years", "warning")>>, penalty |-> 2]

\* degree_levels, on the degrees of the vocabulary.
degree_level(degree) ==
    CASE lower(degree) = "phd" -> 4
      [] lower(degree) = "mtech" -> 3
      [] lower(degree) = "btech" -> 2
      [] lower(degree) = "diploma" -> 1
      [] OTHER -> 0

RECURSIVE highest_level(_)
highest_level(education) ==
    IF education = <<>> THEN 0
    ELSE Max(degree_level(Head(education)), highest_level(Tail(education)))

\* _check_education: never a penalty.
_check_education(education, required) ==
    IF required = "" THEN [issues |-> <<>>, penalty |-> 0]
    ELSE IF highest_level(education) >= degree_level(required)
         THEN [issues |-> <<Issue("education", "pass")>>, penalty |-> 0]
    ELSE IF highest_level(education) > 0
         THEN [issues |-> <<Issue("education", "info")>>, penalty |-> 0]
    ELSE [issues |-> <<>>, penalty |-> 0]

\* IntegrityCheck.check; with_jd is false when jd_extract is None or empty.
IntegrityCheck_check(data, resume, jd, with_jd, gap_threshold_months, now) ==
    LET contact == _check_contact(data)
        dates == _check_dates(data.raw_text)
        gaps == _check_gaps(resume.job_titles, gap_threshold_months, now)
        exp == IF with_jd
               THEN _check_experience(resume.total_experience_years,
                                      jd.experience_required_years)
               ELSE [issues |-> <<>>, penalty |-> 0]
        edu == IF with_jd
               THEN _check_education(resume.education, jd.education_required)
               ELSE [issues |-> <<>>, penalty |-> 0]
        issues == contact.issues \o dates.issues \o gaps.issues \o exp.issues \o edu.issues
        Is(sev) == Cardinality({i \in 1..Len(issues) : issues[i].severity = sev})
    IN  [layer |-> 3,
         score |-> Max(IntegrityCheck_MAX_SCORE - contact.penalty - dates.penalty
                       - gaps.penalty - exp.penalty - edu.penalty, 0),
         max_score |-> IntegrityCheck_MAX_SCORE,
         issues |-> issues,
         summary |-> [errors |-> Is("error"), warnings |-> Is("warning"),
                      infos |-> Is("info"), passed |-> Is("error") = 0]]

\* ----------------------------------------------------------------- ATSReport
\* GRADE_THRESHOLDS, in the order of the dict (the icons by their colour).
GRADE_THRESHOLDS ==
    <<[threshold |-> 90, icon |-> "green", label |-> "Excellent"],
      [threshold |-> 75, icon |-> "yellow", label |-> "Good"],
      [threshold |-> 60, icon |-> "orange", label |-> "Needs Improvement"],
      [threshold |-> 0, icon |-> "red", label |-> "Significant Issues"]>>

\* Faulty variant: the thresholds are tried from the lowest.
_get_grade_lowest_first(score) ==
    LET reached == {i \in 1..Len(GRADE_THRESHOLDS) : score >= GRADE_THRESHOLDS[i].threshold}
    IN  IF reached = {} THEN [icon |-> "red", label |-> "Significant Issues"]
        ELSE LET first == CHOOSE i \in reached : \A j \in reached : i >= j
             IN  [icon |-> GRADE_THRESHOLDS[first].icon, label |-> GRADE_THRESHOLDS[first].label]

\* _get_grade: the first threshold reached, in the order of the dict.
_get_grade(score) ==
    LET reached == {i \in 1..Len(GRADE_THRESHOLDS) : score >= GRADE_THRESHOLDS[i].threshold}
    IN  IF reached = {} THEN [icon |-> "red", label |-> "Significant Issues"]
        ELSE LET first == CHOOSE i \in reached : \A j \in reached : i <= j
             IN  [icon |-> GRADE_THRESHOLDS[first].icon, label |-> GRADE_THRESHOLDS[first].label]

\* ATSReport.format
format(l1, l2, l3) ==
    LET overall_score == l1.score + l2.score + l3.score
        grade == _get_grade(overall_score)
    IN  [overall_score |-> overall_score,
         max_score |-> l1.max_score + l2.max_score + l3.max_score,
         grade |-> grade.label,
         grade_icon |-> grade.icon,
         layers |-> [formatting |-> l1, keywords |-> l2, integrity |-> l3],
         match_percentage |-> l2.match_percentage,
         matched_keywords |-> l2.matched_keywords,
         missing_keywords |-> l2.missing_keywords]

\* ---------------------------------------------------------------- ATS inputs
\* A section header of the parsed resume.
Header(is_standard, canonical) == [is_standard |-> is_standard, canonical |-> canonical]

\* k non-standard headers that have a canonical name.
RECURSIVE NonStandard(_)
NonStandard(k) ==
    IF k = 0 THEN <<>> ELSE <<Header(FALSE, "experience")>> \o NonStandard(k - 1)

HeaderLists ==
    {NonStandard(k) : k \in 0..MaxHeaders}
    \cup {<<Header(TRUE, "skills")>>, <<Header(FALSE, "other"), Header(FALSE, "skills")>>}

WarningLists ==
    {<<>>, <<"Email found in page header">>, <<"No email address found in resume">>,
     <<"Email found in page header", "Phone found in page footer",
       "Email found in page header">>}

\* The x positions of the items that have a bounding box.
ItemLists == {<<>>, <<0, 0, 0, 300>>, <<0, 100, 200, 300>>, <<0, 300, NoX>>}

RawTexts ==
    {<<>>, <<"a@b.co", "9876543210">>, <<"Q1", "2020", "(arrow)">>,
     <<"01/2020", "a@b.co">>, <<"2020", "9876543210">>}

\* n words that are no keyword.
RECURSIVE Filler(_)
Filler(n) == IF n = 0 THEN <<>> ELSE <<"x">> \o Filler(n - 1)

\* Texts for the keyword checks: a keyword twice in 70 words (2.9%), a keyword
\* twice in 4 words (stuffing), both forms of an acronym.
KeywordTexts ==
    {<<"a@b.co", "9876543210">>,
     <<"py", "Py">> \o Filler(68),
     <<"py", "py", "ML", "machine-learning">>}

SectionSets ==
    {NoSections,
     [summary |-> <<"py">>, experience |-> <<"sql">>, skills |-> <<"ml", "sql">>]}

ResumeData(file_type, headers, warnings, items, raw_text, sections) ==
    [file_type |-> file_type, section_headers |-> headers, warnings |-> warnings,
     items |-> items, raw_text |-> raw_text, sections |-> sections]

JdExtract(required, tools, acronyms, years, education) ==
    [required_hard_skills |-> required, preferred_hard_skills |-> <<>>,
     domain_keywords |-> <<>>, tools_and_frameworks |-> tools, acronyms |-> acronyms,
     experience_required_years |-> years, education_required |-> education]

ResumeExtract(hard, inferred, jobs, years, education) ==
    [hard_skills |-> hard, inferred_skills |-> inferred, job_titles |-> jobs,
     total_experience_years |-> years, education |-> education]

AtsCall(with_jd, threshold) ==
    [with_jd |-> with_jd, gap_threshold_months |-> threshold,
     now |-> [year |-> 2024, month |-> 3]]

DEFAULT_GAP_THRESHOLD_MONTHS == 6

\* The inputs of a run that does not vary them.
PlainResume == ResumeData("pdf", <<>>, <<>>, <<>>, <<"a@b.co", "9876543210">>, NoSections)
PlainJd == JdExtract(<<"Py">>, <<>>, <<>>, NoYears, "")
PlainExtract == ResumeExtract(<<"py">>, <<>>, <<>>, 0, <<>>)
PlainCall == AtsCall(TRUE, DEFAULT_GAP_THRESHOLD_MONTHS)

Job(start_date, end_date) == [start_date |-> start_date, end_date |-> end_date]

\* The jobs of a resume extract: one still held, three ended ones 12, 7 and 11
\* months apart, and one without a start date.
Jobs ==
    {Job(DateStr("MM/YYYY", 1, 2023), DateStr("present", 0, 0)),
     Job(DateStr("MM/YYYY", 1, 2021), DateStr("MM/YYYY", 1, 2022)),
     Job(DateStr("YYYY", 0, 2019), DateStr("MM/YYYY", 6, 2020)),
     Job(DateStr("Month YYYY", 1, 2017), DateStr("MM/YYYY", 2, 2018)),
     Job(DateStr("", 0, 0), DateStr("MM/YYYY", 1, 2016))}

RECURSIVE SeqsUpTo(_, _)
SeqsUpTo(S, n) ==
    IF n = 0 THEN {<<>>}
    ELSE LET shorter == SeqsUpTo(S, n - 1)
         IN  shorter \cup {Append(q, x) : q \in shorter, x \in S}

\* A run that varies the parsed resume.
FormatterInputs ==
    /\ resume_data \in {ResumeData(file_type, headers, warnings, items, raw_text, NoSections) :
                           file_type \in {"pdf", "txt", ""}, headers \in HeaderLists,
                           warnings \in WarningLists, items \in ItemLists,
                           raw_text \in RawTexts}
    /\ jd_extract = PlainJd
    /\ resume_extract = PlainExtract
    /\ ats_call \in {AtsCall(with_jd, DEFAULT_GAP_THRESHOLD_MONTHS) : with_jd \in BOOLEAN}

\* A run that varies the keywords of the two extracts.
KeywordInputs ==
    /\ resume_data \in {ResumeData("pdf", <<>>, <<>>, <<>>, raw_text, sections) :
                           raw_text \in KeywordTexts, sections \in SectionSets}
    /\ jd_extract \in {JdExtract(required, tools, acronyms, years, "BTech") :
                          required \in {<<>>, <<"Py">>, <<"py", "Py">>, <<"Py", "SQL", "ml">>},
                          tools \in {<<>>, <<"SQL">>},
                          acronyms \in {<<>>, <<<<"ML", "machine-learning">>>>},
                          years \in {NoYears, 3}}
    /\ resume_extract \in {ResumeExtract(hard, inferred, <<>>, years, education) :
                              hard \in {<<>>, <<"py">>, <<"Py", "sql">>},
                              inferred \in {<<>>, <<"py">>, <<"SQL", "py">>},
                              years \in {1, 2}, education \in {<<"Diploma">>}}
    /\ ats_call = PlainCall

\* A run that varies the jobs of the resume extract.
GapInputs ==
    /\ resume_data = PlainResume
    /\ jd_extract = PlainJd
    /\ resume_extract \in {ResumeExtract(<<"py">>, <<>>, jobs, 0, <<>>) :
                              jobs \in SeqsUpTo(Jobs, MaxJobs)}
    /\ ats_call \in {AtsCall(TRUE, threshold) :
                        threshold \in {DEFAULT_GAP_THRESHOLD_MONTHS,
                                       2 * DEFAULT_GAP_THRESHOLD_MONTHS}}

\* Texts for the density check: no word, a keyword twice in 250 words (0.8%),
\* twice in 100 (2%), three times in 100 (3%), twice in 4 (stuffing), and six
\* keywords twice each in 100 words.
DensityTexts ==
    {<<>>,
     <<"py", "py">> \o Filler(248),
     <<"py", "Py">> \o Filler(98),
     <<"py", "py", "py">> \o Filler(97),
     <<"py", "py", "x", "x">>,
     <<"py", "py", "sql", "sql", "ml", "ml", "q1", "q1", "go", "go", "c", "c">> \o Filler(88)}

\* A run that varies the resume text and the JD keywords of the density check.
DensityInputs ==
    /\ resume_data \in {ResumeData("pdf", <<>>, <<>>, <<>>, raw_text, NoSections) :
                           raw_text \in DensityTexts}
    /\ jd_extract \in {JdExtract(required, <<>>, <<>>, NoYears, "") :
                          required \in {<<"Py">>, <<"py", "SQL", "ml">>,
                                        <<"py", "SQL", "ML", "Q1", "go", "c">>}}
    /\ resume_extract \in {ResumeExtract(hard, <<>>, <<>>, 0, <<>>) :
                              hard \in {<<>>, <<"py">>}}
    /\ ats_call = PlainCall

\* No check_with_extracts call has been made.
NoCall == [report |-> NoResult]

\* The agent has not been called; its LLM is the pass-through one.
AgentIdle ==
    /\ provider = "none"
    /\ check_result = NoResult
    /\ extracts_call = NoCall

NoLayers ==
    /\ layer1 = NoResult
    /\ layer2 = NoResult
    /\ layer3 = NoResult
    /\ report = NoResult
    /\ AgentIdle

\* No ATS check is running.
AtsIdle ==
    /\ resume_data = PlainResume
    /\ jd_extract = PlainJd
    /\ resume_extract = PlainExtract
    /\ ats_call = PlainCall
    /\ NoLayers

AtsInit ==
    /\ FormatterInputs \/ KeywordInputs \/ GapInputs \/ DensityInputs
    /\ NoLayers

\* --------------------------------------------------------------- ATS actions
CheckFormatting ==
    /\ layer1 = NoResult
    /\ layer1' = FormatterCheck_check(resume_data)
    /\ UNCHANGED <<ats_inputs, layer2, layer3, report>>
    /\ UNCHANGED agent_vars
    /\ UNCHANGED outside_ats

ScoreKeywords ==
    /\ layer2 = NoResult
    /\ layer2' = KeywordScorer_score(jd_extract, resume_extract,
                                     resume_data.raw_text, resume_data.sections)
    /\ UNCHANGED <<ats_inputs, layer1, layer3, report>>
    /\ UNCHANGED agent_vars
    /\ UNCHANGED outside_ats

CheckIntegrity ==
    /\ layer3 = NoResult
    /\ layer3' = IntegrityCheck_check(resume_data, resume_extract, jd_extract,
                                      ats_call.with_jd, ats_call.gap_threshold_months,
                                      ats_call.now)
    /\ UNCHANGED <<ats_inputs, layer1, layer2, report>>
    /\ UNCHANGED agent_vars
    /\ UNCHANGED outside_ats

FormatReport ==
    /\ layer1 # NoResult /\ layer2 # NoResult /\ layer3 # NoResult
    /\ report = NoResult
    /\ report' = format(layer1, layer2, layer3)
    /\ UNCHANGED <<ats_inputs, layer1, layer2, layer3>>
    /\ UNCHANGED agent_vars
    /\ UNCHANGED outside_ats

\* ============================================================ ATSCheckerAgent
\* agents/ats_checker.py with the two extractors and LLMService.  In this
\* part jd_extract and resume_extract hold the data the model behind the
\* extraction (the local LLM, or the host AI in MCP mode) produces: a dict
\* with some or all of the keys, or what generate_structured returns for a
\* response that is no JSON.

\* generate_structured's result for a response that json.loads rejects.
ParseError == [parse_error |-> TRUE, raw_response |-> "text"]

\* The defaults of the keys of the two extracts.
DefaultJd == JdExtract(<<>>, <<>>, <<>>, NoYears, "")
DefaultExtract == ResumeExtract(<<>>, <<>>, <<>>, 0, <<>>)

\* data.get(key, default) for every key of the extract.
WithDefaults(data, defaults) ==
    [key \in DOMAIN defaults |-> IF key \in DOMAIN data THEN data[key] ELSE defaults[key]]

JDExtractor_normalise(data) == WithDefaults(data, DefaultJd)

ResumeExtractor_normalise(data) == WithDefaults(data, DefaultExtract)

\* Faulty variant: every provider counts as the pass-through one.
is_mcp_mode_always(llm_provider) == TRUE

\* LLMService.is_mcp_mode
is_mcp_mode(llm_provider) == llm_provider = "none"

\* JDExtractor.extract: in MCP mode the prompt, else the normalised data.
JDExtractor_extract(llm_provider, data) ==
    IF is_mcp_mode(llm_provider)
    THEN [status |-> "mcp_mode", prompt |-> "jd_extraction_prompt"]
    ELSE JDExtractor_normalise(data)

\* ResumeExtractor.extract
ResumeExtractor_extract(llm_provider, data) ==
    IF is_mcp_mode(llm_provider)
    THEN [status |-> "mcp_mode", prompt |-> "resume_extraction_prompt"]
    ELSE ResumeExtractor_normalise(data)

\* extract.get(key, default)
get(extract, key, default) == IF key \in DOMAIN extract THEN extract[key] ELSE default

\* Faulty variant: the partial report withholds the score of Layer 1.
_mcp_partial_report_unscored(l1, jd, resume) ==
    [status |-> "mcp_mode",
     layer1_complete |-> [l1 EXCEPT !.score = 0],
     jd_extraction_prompt |-> get(jd, "prompt", ""),
     resume_extraction_prompt |-> get(resume, "prompt", ""),
     instruction |-> "Call check_with_extracts() with both results"]

\* ATSCheckerAgent._mcp_partial_report
_mcp_partial_report(l1, jd, resume) ==
    [status |-> "mcp_mode",
     layer1_complete |-> l1,
     jd_extraction_prompt |-> get(jd, "prompt", ""),
     resume_extraction_prompt |-> get(resume, "prompt", ""),
     instruction |-> "Call check_with_extracts() with both results"]

\* The three layers as the agent runs them on two extracts: the layers read
\* the extracts with the defaults of the extractors, and IntegrityCheck
\* compares with the JD only when jd_extract is not empty.
agent_layers(data, jd, resume, now) ==
    [layer1 |-> FormatterCheck_check(data),
     layer2 |-> KeywordScorer_score(WithDefaults(jd, DefaultJd),
                                    WithDefaults(resume, DefaultExtract),
                                    data.raw_text, data.sections),
     layer3 |-> IntegrityCheck_check(data, WithDefaults(resume, DefaultExtract),
                                     WithDefaults(jd, DefaultJd), DOMAIN jd # {},
                                     DEFAULT_GAP_THRESHOLD_MONTHS, now)]

\* ATSCheckerAgent.check
ATSCheckerAgent_check ==
    LET jd == JDExtractor_extract(provider, jd_extract)
        resume == ResumeExtractor_extract(provider, resume_extract)
        layers == agent_layers(resume_data, jd, resume, ats_call.now)
    IN  IF get(jd, "status", "") = "mcp_mode" \/ get(resume, "status", "") = "mcp_mode"
        THEN /\ layer1' = FormatterCheck_check(resume_data)
             /\ layer2' = NoResult
             /\ layer3' = NoResult
             /\ check_result' = _mcp_partial_report(FormatterCheck_check(resume_data),
                                                    jd, resume)
        ELSE /\ layer1' = layers.layer1
             /\ layer2' = layers.layer2
             /\ layer3' = layers.layer3
             /\ check_result' = format(layers.layer1, layers.layer2, layers.layer3)

\* ATSCheckerAgent.check_with_extracts
check_with_extracts(jd, resume) ==
    LET layers == agent_layers(resume_data, jd, resume, ats_call.now)
    IN  /\ layer1' = layers.layer1
        /\ layer2' = layers.layer2
        /\ layer3' = layers.layer3
        /\ extracts_call' = [jd_extract |-> jd, resume_extract |-> resume,
                             report |-> format(layers.layer1, layers.layer2,
                                               layers.layer3)]

\* The data behind the extractions.
JdData ==
    {PlainJd, ParseError, <<>>,
     [required_hard_skills |-> <<"Py", "SQL">>, experience_required_years |-> 3],
     JdExtract(<<"Py", "SQL", "ml">>, <<"SQL">>, <<>>, 3, "BTech")}

ResumeExtractData ==
    {PlainExtract, ParseError,
     [hard_skills |-> <<"Py", "sql">>, education |-> <<"Diploma">>],
     ResumeExtract(<<"py">>, <<"SQL">>,
                   <<Job(DateStr("MM/YYYY", 1, 2023), DateStr("present", 0, 0)),
                     Job(DateStr("MM/YYYY", 1, 2021), DateStr("MM/YYYY", 1, 2022))>>,
                   2, <<"BTech">>)}

\* A run of the agent: a resume, the data behind the extractions, a provider.
AgentInputs ==
    /\ resume_data \in {ResumeData(file_type, headers, <<>>, <<>>, raw_text, sections) :
                           file_type \in {"pdf", ""},
                           headers \in {<<>>, NonStandard(2)},
                           raw_text \in {<<"a@b.co", "9876543210">>,
                                         <<"py", "py", "x", "x">>},
                           sections \in SectionSets}
    /\ jd_extract \in JdData
    /\ resume_extract \in ResumeExtractData
    /\ ats_call = PlainCall
    /\ provider \in {"none", "local"}
    /\ layer1 = NoResult
    /\ layer2 = NoResult
    /\ layer3 = NoResult
    /\ report = NoResult
    /\ check_result = NoResult
    /\ extracts_call = NoCall

\* A call check(resume_data, job_text).
Check ==
    /\ ATSCheckerAgent_check
    /\ UNCHANGED <<ats_inputs, report, provider, extracts_call>>
    /\ UNCHANGED outside_ats

\* A call check_with_extracts(resume_data, jd_extract, resume_extract): the
\* caller passes the data as produced, or as the extractors would return it.
CheckWithExtracts ==
    /\ \E jd \in {jd_extract, JDExtractor_normalise(jd_extract)},
          resume \in {resume_extract, ResumeExtractor_normalise(resume_extract)} :
           check_with_extracts(jd, resume)
    /\ UNCHANGED <<ats_inputs, report, provider, check_result>>
    /\ UNCHANGED outside_ats

\* ------------------------------------------------------------ report inputs
\* A layer result with a given score, as ATSReport.format may be handed.
LayerResult(layer, score, max_score) ==
    [layer |-> layer, score |-> score, max_score |-> max_score, issues |-> <<>>,
     match_percentage |-> 0, matched_keywords |-> {}, missing_keywords |-> {}]

\* A run of ATSReport.format on given layer results.
ReportInputs ==
    /\ resume_data = PlainResume
    /\ jd_extract = PlainJd
    /\ resume_extract = PlainExtract
    /\ ats_call = PlainCall
    /\ layer1 \in {LayerResult(1, score, FormatterCheck_MAX_SCORE) :
                      score \in {0, 12, FormatterCheck_MAX_SCORE}}
    /\ layer2 \in {LayerResult(2, score, KeywordScorer_MAX_SCORE) :
                      score \in 0..KeywordScorer_MAX_SCORE}
    /\ layer3 \in {LayerResult(3, score, IntegrityCheck_MAX_SCORE) :
                      score \in {8, IntegrityCheck_MAX_SCORE}}
    /\ report = NoResult
    /\ AgentIdle

\* ================================================================ DiffViewer
\* agents/diff_viewer.py.  A text is the sequence of its characters, a line
\* the sequence of the characters of the line, its newline included.  The
\* result carries statistics, changes, formatted and has_changes; diff_text
\* (the lines of the unified diff joined) is not tracked beyond the counts
\* taken from it.

Chars == {"a", "+", "\n"}

DiffTexts == UNION {[1..n -> Chars] : n \in 0..MaxText}

\* No call of diff has returned.
NoDiff == [has_changes |-> FALSE, formatted |-> ""]

\* str.splitlines(keepends=True): a line ends after each newline, and the
\* rest, when not empty, is the last line.
RECURSIVE splitlines(_)
splitlines(text) ==
    IF text = <<>> THEN <<>>
    ELSE LET ends == {i \in 1..Len(text) : text[i] = "\n"}
         IN  IF ends = {} THEN <<text>>
             ELSE LET first == CHOOSE i \in ends : \A j \in ends : i <= j
                  IN  <<SubSeq(text, 1, first)>>
                      \o splitlines(SubSeq(text, first + 1, Len(text)))

\* "".join(lines)
RECURSIVE join(_)
join(lines) == IF lines = <<>> THEN <<>> ELSE Head(lines) \o join(Tail(lines))

\* str.strip(): the text without the whitespace at its two ends.
RECURSIVE strip(_)
strip(text) ==
    IF text = <<>> THEN <<>>
    ELSE IF Head(text) = "\n" THEN strip(Tail(text))
    ELSE IF text[Len(text)] = "\n" THEN strip(SubSeq(text, 1, Len(text) - 1))
    ELSE text

\* SequenceMatcher.find_longest_match over a[alo+1..ahi] and b[blo+1..bhi]
\* (no junk: the texts are far shorter than 200 lines): the longest common
\* block, of those the earliest in a, of those the earliest in b.
find_longest_match(a, b, alo, ahi, blo, bhi) ==
    LET blocks == {<<i, j, k>> \in ((alo + 1)..ahi) \X ((blo + 1)..bhi) \X (1..(ahi - alo)) :
                      /\ i + k - 1 <= ahi
                      /\ j + k - 1 <= bhi
                      /\ \A d \in 0..(k - 1) : a[i + d] = b[j + d]}
        Better(x, y) == \/ x[3] > y[3]
                        \/ x[3] = y[3] /\ x[1] < y[1]
                        \/ x[3] = y[3] /\ x[1] = y[1] /\ x[2] <= y[2]
    IN  IF blocks = {} THEN <<alo + 1, blo + 1, 0>>
        ELSE CHOOSE x \in blocks : \A y \in blocks : Better(x, y)

\* SequenceMatcher.get_matching_blocks, without the closing dummy block.
RECURSIVE get_matching_blocks(_, _, _, _, _, _)
get_matching_blocks(a, b, alo, ahi, blo, bhi) ==
    LET m == find_longest_match(a, b, alo, ahi, blo, bhi)
    IN  IF m[3] = 0 THEN <<>>
        ELSE get_matching_blocks(a, b, alo, m[1] - 1, blo, m[2] - 1)
             \o <<m>>
             \o get_matching_blocks(a, b, m[1] + m[3] - 1, ahi, m[2] + m[3] - 1, bhi)

\* SequenceMatcher.get_opcodes, the 'equal' ones left out: what lies between
\* two matching blocks, i and j being the lines consumed so far.
RECURSIVE opcodes(_, _, _, _, _)
opcodes(blocks, i, j, la, lb) ==
    LET ai == IF blocks = <<>> THEN la ELSE Head(blocks)[1] - 1
        bj == IF blocks = <<>> THEN lb ELSE Head(blocks)[2] - 1
        tag == IF i < ai /\ j < bj THEN "replace"
               ELSE IF i < ai THEN "delete"
               ELSE IF j < bj THEN "insert"
               ELSE ""
        here == IF tag # ""
                THEN <<[tag |-> tag, i1 |-> i, i2 |-> ai, j1 |-> j, j2 |-> bj]>>
                ELSE <<>>
    IN  IF blocks = <<>> THEN here
        ELSE here \o opcodes(Tail(blocks), ai + Head(blocks)[3], bj + Head(blocks)[3], la, lb)

get_opcodes(a, b) ==
    opcodes(get_matching_blocks(a, b, 0, Len(a), 0, Len(b)), 0, 0, Len(a), Len(b))

\* line.startswith(prefix)
startswith(line, prefix) ==
    Len(line) >= Len(prefix) /\ SubSeq(line, 1, Len(prefix)) = prefix

\* The lines difflib.unified_diff yields for the changed lines: "-" and the
\* line for a line of the original in a replace or delete, "+" and the line for
\* a line of the modified text in a replace or insert.
RECURSIVE diff_lines(_, _, _)
diff_lines(ops, a, b) ==
    IF ops = <<>> THEN <<>>
    ELSE LET op == Head(ops)
         IN  [k \in 1..(op.i2 - op.i1) |-> <<"-">> \o a[op.i1 + k]]
             \o [k \in 1..(op.j2 - op.j1) |-> <<"+">> \o b[op.j1 + k]]
             \o diff_lines(Tail(ops), a, b)

\* sum(1 for line in diff_lines if line.startswith("+") and not
\* line.startswith("+++")); the header line "+++ Tailored Resume" is not
\* among the lines counted here.
additions(lines) ==
    Cardinality({k \in 1..Len(lines) :
        startswith(lines[k], <<"+">>) /\ ~startswith(lines[k], <<"+", "+", "+">>)})

deletions(lines) ==
    Cardinality({k \in 1..Len(lines) :
        startswith(lines[k], <<"-">>) /\ ~startswith(lines[k], <<"-", "-", "-">>)})

\* _extract_changes: one change per opcode that is not 'equal'.
_extract_changes(a, b) ==
    LET ops == get_opcodes(a, b)
    IN  [n \in 1..Len(ops) |->
            [type |-> ops[n].tag,
             original_range |-> <<ops[n].i1 + 1, ops[n].i2>>,
             modified_range |-> <<ops[n].j1 + 1, ops[n].j2>>,
             original_text |-> IF ops[n].tag = "insert" THEN <<>>
                               ELSE strip(join(SubSeq(a, ops[n].i1 + 1, ops[n].i2))),
             modified_text |-> IF ops[n].tag = "delete" THEN <<>>
                               ELSE strip(join(SubSeq(b, ops[n].j1 + 1, ops[n].j2)))]]

\* _format_changes, by its first line.
_format_changes(changes) ==
    IF changes = <<>> THEN "No changes detected." ELSE "Found change(s):"

\* Faulty variant: the fast path counts the lines of the text as additions.
identical_counted(original_lines, modified_lines) ==
    [statistics |-> [additions |-> Len(modified_lines), deletions |-> 0,
                     total_changes |-> Len(modified_lines),
                     original_lines |-> Len(original_lines),
                     modified_lines |-> Len(modified_lines)],
     changes |-> <<>>,
     formatted |-> "No changes detected.",
     has_changes |-> Len(modified_lines) > 0]

\* The fast path of diff: the result for identical texts.
identical(original_lines, modified_lines) ==
    [statistics |-> [additions |-> 0, deletions |-> 0, total_changes |-> 0,
                     original_lines |-> Len(original_lines),
                     modified_lines |-> Len(modified_lines)],
     changes |-> <<>>,
     formatted |-> "No changes detected.",
     has_changes |-> FALSE]

\* DiffViewer.diff
diff(original, modified) ==
    LET original_lines == splitlines(original)
        modified_lines == splitlines(modified)
        lines == diff_lines(get_opcodes(original_lines, modified_lines),
                            original_lines, modified_lines)
        changes == _extract_changes(original_lines, modified_lines)
    IN  IF original = modified
        THEN identical(original_lines, modified_lines)
        ELSE [statistics |-> [additions |-> additions(lines),
                              deletions |-> deletions(lines),
                              total_changes |-> additions(lines) + deletions(lines),
                              original_lines |-> Len(original_lines),
                              modified_lines |-> Len(modified_lines)],
              changes |-> changes,
              formatted |-> _format_changes(changes),
              has_changes |-> additions(lines) + deletions(lines) > 0]

\* "\n".join(items)
RECURSIVE join_lines(_)
join_lines(items) ==
    IF items = <<>> THEN <<>>
    ELSE IF Len(items) = 1 THEN Head(items)
    ELSE Head(items) \o <<"\n">> \o join_lines(Tail(items))

\* "\n".join(sections.get(section, []))
section_content(sections, section) ==
    IF section \in DOMAIN sections THEN join_lines(sections[section]) ELSE <<>>

\* What diff_sections records for a section it does not hand to diff.
same_content == [has_changes |-> FALSE, statistics |-> [additions |-> 0, deletions |-> 0, total_changes |-> 0]]

\* DiffViewer.diff_sections; the two lists are in the order of a set's
\* iteration and are held as sets.
diff_sections(original, modified) ==
    LET all_section_keys == DOMAIN original \cup DOMAIN modified
        section_diffs ==
            [section \in all_section_keys |->
                IF section_content(original, section) # section_content(modified, section)
                THEN diff(section_content(original, section),
                          section_content(modified, section))
                ELSE same_content]
    IN  [section_diffs |-> section_diffs,
         changed_sections |-> {section \in all_section_keys :
                                  section_diffs[section].has_changes},
         unchanged_sections |-> {section \in all_section_keys :
                                    ~section_diffs[section].has_changes}]

\* No call of diff_sections has returned.
NoSectionsResult == [section_diffs |-> <<>>]

SectionKeys == {"summary", "skills"}

\* The lists of strings a section holds: none, one line, a line of two plus
\* signs, two lines, and one string that holds two lines.
SectionContents ==
    {<<>>, << <<"a">> >>, << <<"+", "+">> >>, << <<"a">>, <<"a">> >>,
     << <<"a", "\n", "a">> >>}

SectionMaps == UNION {[keys -> SectionContents] : keys \in SUBSET SectionKeys}

\* No diff is being made.
DiffIdle ==
    /\ original_text = <<>>
    /\ modified_text = <<>>
    /\ diff_result = NoDiff
    /\ original_sections = <<>>
    /\ modified_sections = <<>>
    /\ sections_result = NoSectionsResult

DiffInit ==
    /\ original_text \in DiffTexts
    /\ modified_text \in DiffTexts
    /\ diff_result = NoDiff
    /\ original_sections = <<>>
    /\ modified_sections = <<>>
    /\ sections_result = NoSectionsResult

SectionsInit ==
    /\ original_text = <<>>
    /\ modified_text = <<>>
    /\ diff_result = NoDiff
    /\ original_sections \in SectionMaps
    /\ modified_sections \in SectionMaps
    /\ sections_result = NoSectionsResult

\* A call diff(original_text, modified_text); DiffViewer has no attribute that
\* a call could change.
Diff ==
    /\ diff_result' = diff(original_text, modified_text)
    /\ UNCHANGED <<original_text, modified_text>>
    /\ UNCHANGED <<original_sections, modified_sections, sections_result>>
    /\ UNCHANGED outside_diff

\* A call diff_sections(original_sections, modified_sections).
DiffSections ==
    /\ sections_result' = diff_sections(original_sections, modified_sections)
    /\ UNCHANGED <<original_sections, modified_sections>>
    /\ UNCHANGED <<original_text, modified_text, diff_result>>
    /\ UNCHANGED outside_diff

\* ----------------------------------------------------------------- Scraper
Urls == {"https://a.example/job", "https://b.example/job"}

\* The subclasses of httpx.RequestError a get raises when no response came.
RequestErrors == {"ConnectError", "ReadTimeout"}

\* How one client.get ends: a response that raise_for_status accepts, a
\* response it rejects (httpx.HTTPStatusError), or a httpx.RequestError.
RequestOutcomes == {"ok", "HTTPStatusError"} \cup RequestErrors

ErrorStatusCodes == {404, 500}

NoFetch == [url |-> "", status_code |-> 0, error |-> ""]

\* The seconds fetch sleeps after the failed attempt: 2 ** (attempt - 1).
wait_linear(failed) == 2 * (failed - 1)
wait(failed) == 2 ^ (failed - 1)

\* No fetch has been called on the scraper.
ScraperIdle ==
    /\ _max_retries = MaxRetries
    /\ fetch_url = ""
    /\ attempt = 0
    /\ fetch_pc = "idle"
    /\ outcomes = <<>>
    /\ sleeps = <<>>
    /\ fetch_result = NoFetch

\* Scraper(max_retries=n): the loop of fetch is range(1, n + 1).
ScraperInit ==
    /\ _max_retries \in 1..MaxRetries
    /\ fetch_url = ""
    /\ attempt = 0
    /\ fetch_pc = "idle"
    /\ outcomes = <<>>
    /\ sleeps = <<>>
    /\ fetch_result = NoFetch

\* A call fetch(url) enters the loop with attempt = 1.
Fetch ==
    /\ fetch_pc \in {"idle", "done"}
    /\ \E url \in Urls : fetch_url' = url
    /\ attempt' = 1
    /\ fetch_pc' = "request"
    /\ outcomes' = <<>>
    /\ sleeps' = <<>>
    /\ fetch_result' = NoFetch
    /\ UNCHANGED _max_retries
    /\ UNCHANGED outside_scraper

\* One pass of the loop body up to its return or its sleep: the client's get,
\* bounded by the client's timeout, and the handler of what it raised.
Request ==
    /\ fetch_pc = "request"
    /\ \E outcome \in RequestOutcomes :
        /\ outcomes' = Append(outcomes, outcome)
        /\ CASE outcome = "ok" ->
                  /\ fetch_result' = [url |-> fetch_url, status_code |-> 200,
                                      error |-> None]
                  /\ fetch_pc' = "done"
             [] outcome = "HTTPStatusError" ->
                  /\ \E code \in ErrorStatusCodes :
                        fetch_result' = [url |-> fetch_url, status_code |-> code,
                                         error |-> "HTTP error"]
                  /\ fetch_pc' = "done"
             [] outcome \in RequestErrors ->
                  IF attempt < _max_retries
                  THEN /\ fetch_pc' = "sleep"
                       /\ fetch_result' = fetch_result
                  ELSE /\ fetch_result' = [url |-> fetch_url, status_code |-> 0,
                                           error |-> "Request failed after retries"]
                       /\ fetch_pc' = "done"
    /\ UNCHANGED <<_max_retries, fetch_url, attempt, sleeps>>
    /\ UNCHANGED outside_scraper

\* asyncio.sleep(wait) returns and the loop goes on with the next attempt.
Sleep ==
    /\ fetch_pc = "sleep"
    /\ sleeps' = Append(sleeps, wait(attempt))
    /\ attempt' = attempt + 1
    /\ fetch_pc' = "request"
    /\ UNCHANGED <<_max_retries, fetch_url, outcomes, fetch_result>>
    /\ UNCHANGED outside_scraper

\* ---------------------------------------------------------- browser sessions
PLATFORM_REGISTRY == <<"linkedin", "naukri", "indeed">>

Platforms == {PLATFORM_REGISTRY[i] : i \in DOMAIN PLATFORM_REGISTRY}

REQUIRES_AUTH(platform) == platform \in {"linkedin", "naukri"}

\* The argument platforms of search_jobs; None stands for all of the registry.
PlatformLists ==
    {<<"linkedin">>, <<"naukri">>, <<"indeed">>, <<"naukri", "indeed">>,
     <<"indeed", "linkedin">>, PLATFORM_REGISTRY}

\* self._context = None
NoContext == <<>>

\* SessionManager(): a manager without browser, context or page.
SessionManager == [_context |-> NoContext]

NoSearch == <<>>

NoSave == [status |-> None, platform |-> None, error |-> None]

\* SessionManager.has_session: the cookie file of the platform exists.
has_session(platform) == platform \in cookie_files

\* SessionManager.start: a browser context for the platform, not a login window.
start(session, platform) == [session |-> [_context |-> <<platform, "headless">>], returned |-> "page"]

\* SessionManager.login_prompt: a visible browser at the login page.
login_prompt(session, platform) == [session |-> [_context |-> <<platform, "visible">>], returned |-> "waiting_for_login"]

\* PlatformBase.ensure_session
ensure_session(session, platform) == IF has_session(platform) THEN start(session, platform) ELSE IF REQUIRES_AUTH(platform) THEN login_prompt(session, platform) ELSE start(session, platform)

\* SessionManager.close
close(session) == [_context |-> NoContext]

\* SessionManager.save_session, with the platforms that have a cookie file after it.
save_session(session, platform) == IF session._context = NoContext THEN [raised |-> "RuntimeError", files |-> cookie_files] ELSE [raised |-> None, files |-> cookie_files \cup {platform}]

\* The search_jobs of a platform: the login dict when ensure_session returned
\* one, else the jobs scraped from the page, else the exception of the page.
platform_search_jobs(session, platform, page_ok) == LET e == ensure_session(session, platform) IN [session |-> e.session, results |-> IF e.returned = "waiting_for_login" THEN "waiting_for_login" ELSE IF page_ok THEN "jobs" ELSE "error"]

\* PlatformAgent.search: every platform is built on the agent's one manager.
RECURSIVE PlatformAgent_search(_, _, _)
PlatformAgent_search(session, platforms, page_ok) == IF platforms = <<>> THEN [session |-> session, results |-> NoSearch] ELSE LET first == platform_search_jobs(session, Head(platforms), page_ok) rest == PlatformAgent_search(first.session, Tail(platforms), page_ok) IN [session |-> rest.session, results |-> [p \in {Head(platforms)} \cup DOMAIN rest.results |-> IF p \in DOMAIN rest.results THEN rest.results[p] ELSE first.results]]

\* No session tool has been called and no cookie file exists.
SessionIdle ==
    /\ cookie_files = {}
    /\ agent_session = SessionManager
    /\ search_result = NoSearch
    /\ save_result = NoSave

\* The sessions directory holds the cookie files of some platforms.
SessionInit ==
    /\ cookie_files \in SUBSET Platforms
    /\ agent_session = SessionManager
    /\ search_result = NoSearch
    /\ save_result = NoSave

WebIdle ==
    /\ ScraperIdle
    /\ SessionIdle

\* search_jobs up to the value of agent.search: a new PlatformAgent with a new
\* SessionManager, and the browsers its platforms opened.
SearchJobs ==
    /\ agent_session._context = NoContext
    /\ \E platforms \in PlatformLists, page_ok \in BOOLEAN :
        LET searched == PlatformAgent_search(SessionManager, platforms, page_ok) IN
        /\ agent_session' = searched.session
        /\ search_result' = searched.results
    /\ UNCHANGED <<cookie_files, save_result>>
    /\ UNCHANGED outside_session

\* The finally of search_jobs: agent.close_all() closes the manager.
SearchJobsFinally ==
    /\ agent_session._context # NoContext
    /\ agent_session' = close(agent_session)
    /\ UNCHANGED <<cookie_files, search_result, save_result>>
    /\ UNCHANGED outside_session

\* tool_save_session(platform): save_session of a SessionManager made by the
\* call itself.
tool_save_session(platform) ==
    /\ LET session == SessionManager
           saved == save_session(session, platform) IN
        /\ cookie_files' = saved.files
        /\ save_result' =
              IF saved.raised = None
              THEN [status |-> "saved", platform |-> platform, error |-> None]
              ELSE [status |-> None, platform |-> None,
                    error |-> "No active session to save"]
    /\ UNCHANGED <<agent_session, search_result>>

\* The tool is called for a platform.
ToolSaveSession ==
    /\ \E platform \in Platforms : tool_save_session(platform)
    /\ UNCHANGED outside_session

\* ------------------------------------------------------------------ helpers
\* The non-cancelled applications of a (resume, job) pair.
ActiveFor(apps, resume_id, job_id) ==
    {i \in 1..Len(apps) :
        /\ apps[i].resume_id = resume_id
        /\ apps[i].job_id = job_id
        /\ apps[i].status # "cancelled"}

\* A step of one of the three ApplyAgent operations.
ApplyAgentStep == PrepareApplication \/ ConfirmApply \/ CancelApplication

\* ------------------------------------------------------------------- claims

\* C1: an application's stored status is 'submitted' only if a confirm_apply
\* call for it succeeded, so that it has applied_at set and a confirmed
\* action-log entry.  (Stated as claimed; update_status breaks it.)
C1_SubmittedOnlyByConfirm ==
    \A a \in 1..Len(applications) :
        applications[a].status = "submitted" =>
            /\ applications[a].applied_at # NoId
            /\ \E n \in 1..Len(action_log) :
                  /\ action_log[n].action = "confirm_apply"
                  /\ action_log[n].application_id = a
                  /\ action_log[n].confirmed

\* C2: in every reachable state, each (resume_id, job_id) pair has at most one
\* application whose status is not 'cancelled'.
C2_AtMostOneActivePerPair ==
    \A a, b \in 1..Len(applications) :
        (/\ applications[a].resume_id = applications[b].resume_id
         /\ applications[a].job_id = applications[b].job_id
         /\ applications[a].status # "cancelled"
         /\ applications[b].status # "cancelled") => a = b

\* C2 witness: a pair with a cancelled and a live application, where the
\* attempt to revive the cancelled one was refused by the unique index.
C2_Witness ==
    /\ result.error = "IntegrityError"
    /\ \E a, b \in 1..Len(applications) :
          /\ a # b
          /\ applications[a].resume_id = applications[b].resume_id
          /\ applications[a].job_id = applications[b].job_id
          /\ applications[a].status = "cancelled"
          /\ applications[b].status # "cancelled"

C4_AtsGate ==
    [][\A pair \in PairInputs, content \in Contents, ats_score \in AtsScores,
          force \in BOOLEAN :
          IF ats_score # NoScore /\ ats_score < MIN_ATS_SCORE /\ ~force
          THEN prepare_application(pair[1], pair[2], content[1], content[2],
                                   ats_score, force)
               => /\ result'.error = "ats_below_min"
                  /\ result'.min_required = MIN_ATS_SCORE
                  /\ result'.suggestion
                  /\ applications' = applications
                  /\ action_log' = action_log
          ELSE result'.error = "ats_below_min"
               => ~prepare_application(pair[1], pair[2], content[1], content[2],
                                       ats_score, force)]_vars

\* C4 witness: the gate has rejected a call while applications exist.
C4_Witness ==
    /\ result.error = "ats_below_min"
    /\ result.min_required = MIN_ATS_SCORE
    /\ Len(applications) > 0

\* C5: a successful prepare_application creates exactly one record, in status
\* 'draft', appends exactly one 'prepare_application' log entry keyed by the
\* new id, returns requires_confirmation = True, and leaves no record newly
\* 'submitted'.
C5_PrepareCreatesDraft ==
    [][\A pair \in PairInputs, content \in Contents, ats_score \in AtsScores,
          force \in BOOLEAN :
          (/\ result'.error = ""
           /\ prepare_application(pair[1], pair[2], content[1], content[2],
                                  ats_score, force))
          => LET new == Len(applications) + 1 IN
             /\ Len(applications') = new
             /\ SubSeq(applications', 1, Len(applications)) = applications
             /\ applications'[new].status = "draft"
             /\ applications'[new].resume_id = pair[1]
             /\ applications'[new].job_id = pair[2]
             /\ Len(action_log') = Len(action_log) + 1
             /\ SubSeq(action_log', 1, Len(action_log)) = action_log
             /\ action_log'[Len(action_log')].action = "prepare_application"
             /\ action_log'[Len(action_log')].application_id = new
             /\ result'.application_id = new
             /\ result'.requires_confirmation]_vars

\* C5 witness: a prepare has just succeeded for a pair whose earlier application
\* was cancelled.
C5_Witness ==
    /\ result.error = ""
    /\ result.requires_confirmation
    /\ result.application_id = Len(applications)
    /\ Len(applications) > 1
    /\ applications[Len(applications)].status = "draft"
    /\ action_log[Len(action_log)].action = "prepare_application"

\* C6: confirm_apply on an existing application whose status is neither
\* 'draft' nor 'ready' returns an error naming the actual state and leaves the
\* record's status and applied_at unchanged.
C6_ConfirmRejectsOtherStates ==
    [][\A app_id \in AppIds(applications), now \in Times :
          (/\ app_id <= Len(applications)
           /\ applications[app_id].status \notin {"draft", "ready"}
           /\ confirm_apply(app_id, now))
          => /\ result'.error = "wrong_state"
             /\ result'.status = applications[app_id].status
             /\ applications'[app_id].status = applications[app_id].status
             /\ applications'[app_id].applied_at = applications[app_id].applied_at]_vars

\* C6 witness: a confirm of an already submitted application was refused.
C6_Witness ==
    /\ result.error = "wrong_state"
    /\ result.status = "submitted"
    /\ applications[result.application_id].applied_at # NoId

\* C7: a successful confirm_apply sets status 'submitted', stores one timestamp
\* in applied_at, appends exactly one log entry with confirmed = true for the
\* application, and the stored, the logged and the returned timestamp are the
\* same.
C7_ConfirmStampsOnce ==
    [][\A app_id \in AppIds(applications), now \in Times :
          (/\ app_id <= Len(applications)
           /\ applications[app_id].status \in {"draft", "ready"}
           /\ confirm_apply(app_id, now))
          => /\ result'.error = ""
             /\ applications'[app_id].status = "submitted"
             /\ applications'[app_id].applied_at = now
             /\ Len(action_log') = Len(action_log) + 1
             /\ SubSeq(action_log', 1, Len(action_log)) = action_log
             /\ action_log'[Len(action_log')].action = "confirm_apply"
             /\ action_log'[Len(action_log')].application_id = app_id
             /\ action_log'[Len(action_log')].confirmed
             /\ action_log'[Len(action_log')].confirmed_at = now
             /\ result'.applied_at = now]_vars

\* C7 witness: a confirm has just succeeded at the later time.
C7_Witness ==
    /\ result.error = ""
    /\ result.status = "submitted"
    /\ result.applied_at = 2
    /\ applications[result.application_id].applied_at = 2
    /\ action_log[Len(action_log)].confirmed
    /\ action_log[Len(action_log)].confirmed_at = 2

\* C8: cancel_application on an existing application, whatever its status,
\* returns success, leaves the status 'cancelled' and appends a log entry with
\* confirmed = false; on an already cancelled application it succeeds again
\* and the status stays what the first call left.
C8_CancelAlwaysSucceeds ==
    [][\A app_id \in AppIds(applications), reason \in Texts :
          (/\ app_id <= Len(applications)
           /\ cancel_application(app_id, reason))
          => /\ result'.error = ""
             /\ result'.status = "cancelled"
             /\ applications'[app_id].status = "cancelled"
             /\ Len(action_log') = Len(action_log) + 1
             /\ SubSeq(action_log', 1, Len(action_log)) = action_log
             /\ action_log'[Len(action_log')].action = "cancel_application"
             /\ action_log'[Len(action_log')].application_id = app_id
             /\ ~action_log'[Len(action_log')].confirmed]_vars

\* C8 witness: two cancellations in a row of the same application, both
\* successful, the second on an already cancelled record.
C8_Witness ==
    /\ Len(action_log) >= 2
    /\ action_log[Len(action_log)].action = "cancel_application"
    /\ action_log[Len(action_log) - 1].action = "cancel_application"
    /\ action_log[Len(action_log)].application_id
         = action_log[Len(action_log) - 1].application_id
    /\ result.error = ""
    /\ result.status = "cancelled"
    /\ applications[result.application_id].status = "cancelled"

\* C9 as claimed: every prepare, confirm or cancel attempt that reaches the
\* lookup of an application record appends an action-log entry, whether it
\* succeeds or is rejected; an attempt that fails validation before any lookup
\* appends nothing.
C9_EveryAttemptLogged ==
    [][/\ \A pair \in PairInputs, content \in Contents, ats_score \in AtsScores,
            force \in BOOLEAN :
            (/\ ~(ats_score # NoScore /\ ats_score < MIN_ATS_SCORE /\ ~force)
             /\ pair[1] \in ResumeRows
             /\ pair[2] \in JobRows
             /\ prepare_application(pair[1], pair[2], content[1], content[2],
                                    ats_score, force))
            => Len(action_log') = Len(action_log) + 1
       /\ \A app_id \in AppIds(applications), now \in Times :
            (app_id <= Len(applications) /\ confirm_apply(app_id, now))
            => Len(action_log') = Len(action_log) + 1
       /\ \A app_id \in AppIds(applications), reason \in Texts :
            (app_id <= Len(applications) /\ cancel_application(app_id, reason))
            => Len(action_log') = Len(action_log) + 1
       /\ result'.error = "missing_app_id" => action_log' = action_log]_vars

\* C10 as claimed: under the ApplyAgent operations 'submitted' and 'cancelled'
\* are terminal, and a record is created in 'draft'.
C10_TerminalStates ==
    [][ApplyAgentStep =>
         /\ \A a \in 1..Len(applications) :
               applications[a].status \in {"submitted", "cancelled"}
               => applications'[a].status = applications[a].status
         /\ \A a \in (Len(applications) + 1)..Len(applications') :
               applications'[a].status = "draft"]_vars


\* ------------------------------------------------------ claims, tailor tokens
\* The tokens minted so far.
Minted == 1..Len(issued)

\* The step is an export_resume call presenting the token.
ExportWith(tailor_token) ==
    /\ tool_result'.tailor_token = tailor_token
    /\ clock' - clock \in Later(clock)
    /\ \E resume_text \in ResumeTexts, structure \in Structures :
           export_resume(resume_text, structure[1], structure[2], tailor_token,
                         clock' - clock)
    /\ UNCHANGED outside_tailor

\* C11: a tailor token is single-use: at most one validation of a token
\* returns a text, that text is the one bound to the token when it was minted,
\* and the entry is gone from the table once a validation has returned it.
C11_TokenSingleUse ==
    \A tok \in Minted :
        /\ Len(issued[tok].returned) <= 1
        /\ issued[tok].returned # <<>>
           => /\ issued[tok].returned[1] = issued[tok].text
              /\ tok \notin DOMAIN _TAILOR_TOKENS

\* A token was redeemed and a later call presenting it was refused.
C11_Witness ==
    /\ tool_result.op = "export_resume"
    /\ tool_result.error = "invalid_token"
    /\ tool_result.tailor_token \in Minted
    /\ issued[tool_result.tailor_token].returned # <<>>

\* C12: a token is valid for 1800 seconds after its minting: a validation whose
\* clock reading is at or after the expiry returns None and leaves no entry for
\* the token, and the first validation whose clock reading is strictly before
\* the expiry returns the bound text.
C12_TokenTimeToLive ==
    [][\A tok \in Minted :
         ExportWith(tok) =>
         LET expiry == issued[tok].minted_at + 1800
         IN  /\ clock' >= expiry
                => /\ tool_result'.error = "invalid_token"
                   /\ tool_result'.text = None
                   /\ tok \notin DOMAIN _TAILOR_TOKENS'
             /\ (clock' < expiry /\ issued[tok].returned = <<>>)
                => /\ tool_result'.error = ""
                   /\ tool_result'.text = issued[tok].text]_vars

\* A token never redeemed was refused by a call made exactly 1800 seconds
\* after its minting.
C12_Witness ==
    /\ tool_result.op = "export_resume"
    /\ tool_result.error = "invalid_token"
    /\ tool_result.tailor_token \in Minted
    /\ issued[tool_result.tailor_token].returned = <<>>
    /\ clock = issued[tool_result.tailor_token].minted_at + 1800

\* C13: an export_resume call with a valid token writes the text bound to the
\* token, whatever resume_text, sections and contact the caller passes.
C13_ExportWritesBoundText ==
    (/\ tool_result.op = "export_resume"
     /\ tool_result.tailor_token # NoToken
     /\ tool_result.error = "")
    => tool_result.document =
           [built_from |-> "text", body |-> issued[tool_result.tailor_token].text]

\* C14: an export_resume call with an unknown, expired or consumed token
\* returns an error and exports nothing, and every other token that is
\* unexpired after the call is still in the table with its entry.
C14_BadTokenRefused ==
    [][\A tailor_token \in TokenInputs :
          (/\ \/ tailor_token \notin DOMAIN _TAILOR_TOKENS
              \/ ~Unexpired(_TAILOR_TOKENS[tailor_token], clock')
           /\ ExportWith(tailor_token))
          => /\ tool_result'.error = "invalid_token"
             /\ tool_result'.document = NoDocument
             /\ \A other \in DOMAIN _TAILOR_TOKENS \ {tailor_token} :
                   Unexpired(_TAILOR_TOKENS[other], clock')
                   => /\ other \in DOMAIN _TAILOR_TOKENS'
                      /\ _TAILOR_TOKENS'[other] = _TAILOR_TOKENS[other]]_vars

\* A call was refused and another token is in the table, unexpired.
C14_Witness ==
    /\ tool_result.op = "export_resume"
    /\ tool_result.error = "invalid_token"
    /\ \E other \in DOMAIN _TAILOR_TOKENS :
          /\ other # tool_result.tailor_token
          /\ Unexpired(_TAILOR_TOKENS[other], clock)

\* C15: a text produced by tailor_resume is exported only by a call that
\* presents a token bound to that text; a call without a token does not
\* export tailored content.
C15_TailoredNeedsToken ==
    (/\ tool_result.op = "export_resume"
     /\ tool_result.error = ""
     /\ tool_result.document.built_from = "text"
     /\ \E tok \in Minted : issued[tok].text = tool_result.document.body)
    => /\ tool_result.tailor_token \in Minted
       /\ issued[tool_result.tailor_token].text = tool_result.document.body

\* ---------------------------------------------------------------- claims, ATS
\* C16: every layer result has an integer score between 0 and the layer's
\* max_score (20 for FormatterCheck, 60 for KeywordScorer, 20 for
\* IntegrityCheck), and the report's overall score lies in 0..100.
C16_ScoresInRange ==
    /\ layer1 # NoResult => layer1.max_score = 20 /\ layer1.score \in 0..20
    /\ layer2 # NoResult => layer2.max_score = 60 /\ layer2.score \in 0..60
    /\ layer3 # NoResult => layer3.max_score = 20 /\ layer3.score \in 0..20
    /\ report # NoResult => report.overall_score \in 0..100

\* A report over a hard-blocked file (Layer 1 clamped to 0) and penalised
\* Layer 3.
C16_Witness ==
    /\ report # NoResult
    /\ layer1.score = 0
    /\ layer3.score < 20

\* The distinct JD keywords, and what the resume offers, compared without case.
C17_Keywords == jd_all(jd_extract)
C17_Exact == Lowered(resume_extract.hard_skills)
C17_Inferred == Lowered(resume_extract.inferred_skills)

\* Each JD keyword is in exactly one of the three lists, an exact match
\* taking precedence.
C17_Partition ==
    /\ layer2.matched_keywords = C17_Keywords \cap C17_Exact
    /\ layer2.inferred_matches = (C17_Keywords \cap C17_Inferred) \ C17_Exact
    /\ layer2.missing_keywords = C17_Keywords \ (C17_Exact \cup C17_Inferred)

\* C17 as stated: match_percentage (held in tenths of a percent) is the number
\* of JD keywords matched exactly or by inference over the number of distinct
\* JD keywords, times 100, within [0, 100] and 0 for an empty keyword set; each
\* keyword is in exactly one of matched, inferred_matches, missing.
C17_MatchPercentageExact ==
    layer2 # NoResult =>
        LET found == Cardinality(layer2.matched_keywords) + Cardinality(layer2.inferred_matches)
            total == Cardinality(C17_Keywords)
        IN  /\ C17_Partition
            /\ layer2.match_percentage \in 0..1000
            /\ total = 0 => layer2.match_percentage = 0
            /\ total > 0 => layer2.match_percentage * total = 1000 * found

\* C17 amended: match_percentage is that quotient rounded to one decimal (it
\* differs from the quotient by at most half a tenth).
C17_MatchPercentageRounded ==
    layer2 # NoResult =>
        LET found == Cardinality(layer2.matched_keywords) + Cardinality(layer2.inferred_matches)
            total == Cardinality(C17_Keywords)
            off == layer2.match_percentage * total - 1000 * found
        IN  /\ C17_Partition
            /\ layer2.match_percentage \in 0..1000
            /\ total = 0 => layer2.match_percentage = 0
            /\ total > 0 => (2 * off <= total /\ -2 * off <= total)

\* One keyword of three is matched exactly and one by inference: 66.7.
C17_Witness ==
    /\ layer2 # NoResult
    /\ Cardinality(layer2.matched_keywords) = 1
    /\ Cardinality(layer2.inferred_matches) = 1
    /\ Cardinality(layer2.missing_keywords) = 1
    /\ layer2.match_percentage = 667

\* The jobs with a parseable start date, by their place in job_titles.
C18_Dated ==
    {i \in 1..Len(resume_extract.job_titles) :
        _parse_date_str(resume_extract.job_titles[i].start_date) # NoDate}

C18_Start(i) == _parse_date_str(resume_extract.job_titles[i].start_date)

C18_End(i) ==
    LET end == _parse_date_str(resume_extract.job_titles[i].end_date)
    IN  IF end = NoDate THEN ats_call.now ELSE end

\* The orders in which the jobs of S can be taken.
RECURSIVE C18_Orders(_)
C18_Orders(S) ==
    IF S = {} THEN {<<>>}
    ELSE UNION {{<<i>> \o order : order \in C18_Orders(S \ {i})} : i \in S}

\* The dated jobs in an order of descending start date.
C18_Descending(order) ==
    /\ Len(order) = Cardinality(C18_Dated)
    /\ {order[k] : k \in 1..Len(order)} = C18_Dated
    /\ \A k \in 1..(Len(order) - 1) :
          ~Before(C18_Start(order[k]), C18_Start(order[k + 1]))

C18_Gap(order, k) ==
    (C18_Start(order[k]).year - C18_End(order[k + 1]).year) * 12
    + (C18_Start(order[k]).month - C18_End(order[k + 1]).month)

\* The employment-gap issues of the Layer 3 result.
C18_Reported ==
    LET IsGap(issue) == issue.check = "employment_gap"
    IN  SelectSeq(layer3.issues, IsGap)

C18_WitnessCapped ==
    /\ layer3 # NoResult
    /\ Len(C18_Reported) = 3
    /\ layer3.score = 16

\* C19: the report's overall score is the sum of the three layer scores; its
\* grade is the first threshold reached from the highest (90 Excellent, 75
\* Good, 60 Needs Improvement, else Significant Issues), so 82 is 'Good' with
\* the yellow icon; the three layer results are kept unchanged in the report.
C19_ReportGrade ==
    report # NoResult =>
        /\ report.overall_score = layer1.score + layer2.score + layer3.score
        /\ report.grade = (IF report.overall_score >= 90 THEN "Excellent"
                           ELSE IF report.overall_score >= 75 THEN "Good"
                           ELSE IF report.overall_score >= 60 THEN "Needs Improvement"
                           ELSE "Significant Issues")
        /\ report.grade_icon = (IF report.overall_score >= 90 THEN "green"
                                ELSE IF report.overall_score >= 75 THEN "yellow"
                                ELSE IF report.overall_score >= 60 THEN "orange"
                                ELSE "red")
        /\ report.overall_score = 82
           => report.grade = "Good" /\ report.grade_icon = "yellow"
        /\ report.layers = [formatting |-> layer1, keywords |-> layer2,
                            integrity |-> layer3]

\* A report scoring 82.
C19_Witness ==
    /\ report # NoResult
    /\ report.overall_score = 82
    /\ report.grade = "Good"

C22_WhitelistAllOrNothing ==
    [][\A app_id \in AppIds(applications), kwargs \in KwargsInputs :
          Database_update_application(app_id, kwargs)
          => IF DOMAIN kwargs \subseteq _APPLICATION_UPDATABLE_COLUMNS
             THEN result'.error # "ValueError"
             ELSE result'.error = "ValueError" /\ applications' = applications]_vars

\* A call naming status and resume_id has been rejected while an application
\* exists that the status would have changed.
C22_Witness ==
    /\ result.error = "ValueError"
    /\ Len(applications) >= 1
    /\ applications[1].status = "draft"

\* C25: tailor_resume adds an entry to the token table only on success: when
\* the result carries tailored text and no error, exactly one token is new in
\* the table, it is the one returned, bound to the text returned, and expires
\* 1800 s after it was minted; in pass-through mode and when tailoring fails
\* no token is returned and the table is as it was.
C25_MintOnlyOnSuccess ==
    [][(tool_result'.op = "tailor_resume" /\ TailorResume) =>
         IF tool_result'.text # None /\ tool_result'.error = ""
         THEN /\ DOMAIN _TAILOR_TOKENS' \ DOMAIN _TAILOR_TOKENS = {tool_result'.tailor_token}
              /\ tool_result'.tailor_token \notin Minted
              /\ _TAILOR_TOKENS'[tool_result'.tailor_token].text = tool_result'.text
              /\ _TAILOR_TOKENS'[tool_result'.tailor_token].expires =
                     issued'[tool_result'.tailor_token].minted_at + 1800
         ELSE /\ tool_result'.tailor_token = NoToken
              /\ _TAILOR_TOKENS' = _TAILOR_TOKENS]_vars

\* A second token has been minted, and a later call failed.
C25_Witness ==
    /\ tool_result.op = "tailor_resume"
    /\ tool_result.error = "LLMError"
    /\ Len(issued) = 2
    /\ DOMAIN _TAILOR_TOKENS # {}

\* The lines of the modified text (side 2) or of the original (side 1) that
\* the changes cover.
RECURSIVE C26_Lines(_, _)
C26_Lines(changes, side) ==
    IF changes = <<>> THEN 0
    ELSE LET range == IF side = 1 THEN Head(changes).original_range
                      ELSE Head(changes).modified_range
         IN  (range[2] - range[1] + 1) + C26_Lines(Tail(changes), side)

\* C26: the has_changes flag of diff says whether any change exists: it is
\* True for two different texts, and True exactly when the changes list is not
\* empty; additions and deletions count every added and every removed line,
\* also the lines that themselves begin with '+' or '++'.
C26_HasChangesExact ==
    diff_result # NoDiff =>
        /\ original_text # modified_text => diff_result.has_changes
        /\ diff_result.has_changes <=> diff_result.changes # <<>>
        /\ diff_result.statistics.additions = C26_Lines(diff_result.changes, 2)
        /\ diff_result.statistics.deletions = C26_Lines(diff_result.changes, 1)

\* C27: changed_sections and unchanged_sections of diff_sections are disjoint
\* and together the section keys of both inputs; a section is in
\* changed_sections exactly when its newline-joined content differs between
\* the two sides (a missing section being empty content), and diff is called
\* only for the sections whose content differs.
C27_SectionsPartition ==
    sections_result # NoSectionsResult =>
        LET keys == DOMAIN original_sections \cup DOMAIN modified_sections
            differs(section) == section_content(original_sections, section)
                                # section_content(modified_sections, section)
        IN  /\ sections_result.changed_sections \cap sections_result.unchanged_sections = {}
            /\ sections_result.changed_sections \cup sections_result.unchanged_sections = keys
            /\ sections_result.changed_sections = {section \in keys : differs(section)}
            /\ \A section \in keys :
                  "changes" \in DOMAIN sections_result.section_diffs[section]
                  => differs(section)

\* A full report: the three layer results under a score and a grade.
C21_FullReport(r) ==
    /\ "status" \notin DOMAIN r
    /\ r.layers = [formatting |-> layer1', keywords |-> layer2', integrity |-> layer3']
    /\ layer2' # NoResult /\ layer3' # NoResult
    /\ r.overall_score = layer1'.score + layer2'.score + layer3'.score

\* C21: when an extraction reports mcp_mode, check returns a partial report
\* holding Layer 1's complete result unchanged, both extraction prompts and a
\* resume instruction, and computes neither Layer 2 nor Layer 3; otherwise it
\* returns the full three-layer report.  A later check_with_extracts with
\* externally produced extracts returns a full report.
C21_PartialThenFull ==
    [][/\ Check =>
            IF provider = "none"
            THEN /\ check_result'.status = "mcp_mode"
                 /\ check_result'.layer1_complete = FormatterCheck_check(resume_data)
                 /\ check_result'.jd_extraction_prompt = "jd_extraction_prompt"
                 /\ check_result'.resume_extraction_prompt = "resume_extraction_prompt"
                 /\ check_result'.instruction # ""
                 /\ layer2' = NoResult /\ layer3' = NoResult
            ELSE C21_FullReport(check_result')
       /\ (get(check_result, "status", "") = "mcp_mode" /\ CheckWithExtracts)
            => C21_FullReport(extracts_call'.report)]_vars

\* A partial report was returned and check_with_extracts has then run on the
\* data of the host AI.
C21_Witness ==
    /\ get(check_result, "status", "") = "mcp_mode"
    /\ check_result.layer1_complete.score < FormatterCheck_MAX_SCORE
    /\ extracts_call # NoCall
    /\ extracts_call.jd_extract = ParseError

C28_Count(keyword) ==
    Cardinality({i \in 1..Len(resume_data.raw_text) :
                    lower(resume_data.raw_text[i]) = keyword})

\* C28: a JD keyword adds 1 to the density bonus only if it occurs at least
\* twice and its density (occurrences over the word count) is within the
\* 1%-3% band; a keyword above 5% earns nothing and produces a
\* keyword-stuffing warning; the bonus is capped at 5 and is 0 for an empty
\* text.  Without acronyms and sections the bonus is the score less the points
\* of the exact and the inferred matches.
C28_DensityBand ==
    (/\ layer2 # NoResult
     /\ jd_extract.acronyms = <<>>
     /\ resume_data.sections = NoSections) =>
        LET total_words == Len(resume_data.raw_text)
            bonus == layer2.score
                     - Min(3 * Cardinality(layer2.matched_keywords), 30)
                     - Min(2 * Cardinality(layer2.inferred_matches), 10)
            in_band == {k \in jd_all(jd_extract) :
                           /\ C28_Count(k) >= 2
                           /\ 100 * C28_Count(k) >= total_words
                           /\ 100 * C28_Count(k) <= 3 * total_words}
            stuffing == {k \in jd_all(jd_extract) :
                            100 * C28_Count(k) > 5 * total_words}
            IsDensity(issue) == issue.check = "keyword_density"
        IN  /\ bonus = Min(Cardinality(in_band), 5)
            /\ Len(SelectSeq(layer2.issues, IsDensity)) = Cardinality(stuffing)
            /\ total_words = 0 => bonus = 0

\* C30: update_status with the id of no application returns the not-found
\* error and leaves the tables applications and action_log as they were (so
\* that every action-log entry names an existing application).
C30_UnknownIdChangesNothing ==
    [][\A new_status \in valid_statuses, notes \in Notes :
          update_status(Len(applications) + 1, new_status, notes)
          => /\ result'.error = "app_not_found"
             /\ applications' = applications
             /\ action_log' = action_log]_vars

\* What holds of a fetch call at every moment: no more requests than
\* max_retries; every request but the last failed transiently, so a status
\* error or a success is never followed by a retry; the k-th sleep follows a
\* transient failure of attempt k < max_retries and lasts 2^(k-1) seconds, and
\* one sleep has been made per transient failure that was not the last
\* allowed attempt; the call is over exactly when the last request succeeded,
\* was rejected by status, or was the max_retries-th; and its result has
\* error None exactly when a request succeeded, a non-empty message otherwise.
C23_Bounded ==
    /\ Len(outcomes) <= _max_retries
    /\ \A k \in 1..Len(outcomes) - 1 : outcomes[k] \in RequestErrors
    /\ \A k \in 1..Len(sleeps) :
        /\ sleeps[k] = 2 ^ (k - 1)
        /\ k < _max_retries
        /\ outcomes[k] \in RequestErrors
    /\ fetch_pc = "request" => Len(sleeps) = Len(outcomes) /\ attempt = Len(outcomes) + 1
    /\ fetch_pc = "sleep" =>
        /\ Len(sleeps) = Len(outcomes) - 1
        /\ outcomes[Len(outcomes)] \in RequestErrors
        /\ Len(outcomes) < _max_retries
    /\ fetch_pc = "done" =>
        /\ Len(outcomes) >= 1
        /\ Len(sleeps) = Len(outcomes) - 1
        /\ outcomes[Len(outcomes)] \in RequestErrors => Len(outcomes) = _max_retries
        /\ fetch_result.error = None <=> \E k \in 1..Len(outcomes) : outcomes[k] = "ok"
        /\ fetch_result.error # None => fetch_result.error # ""
        /\ outcomes[Len(outcomes)] = "HTTPStatusError" => fetch_result.error = "HTTP error"

C24_SaveAfterLogin ==
    [][\A platform \in Platforms :
          (/\ platform \in DOMAIN search_result
           /\ search_result[platform] = "waiting_for_login"
           /\ tool_save_session(platform))
          => /\ save_result'.status = "saved"
             /\ platform \in cookie_files']_vars

Next ==
    \/ PrepareApplication
    \/ ConfirmApply
    \/ CancelApplication
    \/ UpdateStatus
    \/ ApplyJobConfirm
    \/ ApplyJobPrepare
    \/ TrackApplications

Init ==
    /\ ApplyInit
    /\ TailorInit
    /\ AtsIdle
    /\ DiffIdle
    /\ WebIdle

Spec == Init /\ [][Next]_vars

TailorNext ==
    \/ Tick
    \/ TailorResume
    \/ ExportResume
    \/ tool_export_resume

TailorSpec == Init /\ [][TailorNext]_vars

AtsSpecInit ==
    /\ ApplyInit
    /\ TailorInit
    /\ AtsInit
    /\ DiffIdle
    /\ WebIdle

AtsNext ==
    \/ CheckFormatting
    \/ ScoreKeywords
    \/ CheckIntegrity
    \/ FormatReport

AtsSpec == AtsSpecInit /\ [][AtsNext]_vars

ReportSpecInit ==
    /\ ApplyInit
    /\ TailorInit
    /\ ReportInputs
    /\ DiffIdle
    /\ WebIdle

ReportNext ==
    \/ FormatReport

ReportSpec == ReportSpecInit /\ [][ReportNext]_vars

DiffSpecInit ==
    /\ ApplyInit
    /\ TailorInit
    /\ AtsIdle
    /\ DiffInit
    /\ WebIdle

DiffNext ==
    \/ Diff

DiffSpec == DiffSpecInit /\ [][DiffNext]_vars

SectionsSpecInit ==
    /\ ApplyInit
    /\ TailorInit
    /\ AtsIdle
    /\ SectionsInit
    /\ WebIdle

SectionsNext ==
    \/ DiffSections

SectionsSpec == SectionsSpecInit /\ [][SectionsNext]_vars

AgentSpecInit ==
    /\ ApplyInit
    /\ TailorInit
    /\ AgentInputs
    /\ DiffIdle
    /\ WebIdle

AgentNext ==
    \/ Check
    \/ CheckWithExtracts

AgentSpec == AgentSpecInit /\ [][AgentNext]_vars

\* The database with its update method called as such.
DbNext ==
    \/ PrepareApplication
    \/ CancelApplication
    \/ UpdateApplication

DbSpec == Init /\ [][DbNext]_vars

\* The scraper; a request ends within the client's timeout and a sleep ends,
\* so a step of the loop that can be taken is taken.
ScraperSpecInit ==
    /\ ApplyInit
    /\ TailorInit
    /\ AtsIdle
    /\ DiffIdle
    /\ ScraperInit
    /\ SessionIdle

ScraperNext ==
    \/ Fetch
    \/ Request
    \/ Sleep

ScraperSpec == ScraperSpecInit /\ [][ScraperNext]_vars /\ WF_vars(Request) /\ WF_vars(Sleep)

SessionSpecInit ==
    /\ ApplyInit
    /\ TailorInit
    /\ AtsIdle
    /\ DiffIdle
    /\ ScraperIdle
    /\ SessionInit

SessionNext ==
    \/ SearchJobs
    \/ SearchJobsFinally
    \/ ToolSaveSession

SessionSpec == SessionSpecInit /\ [][SessionNext]_vars
====
